---- MODULE Spec2Model ----
(***************************************************************************)
(* Model of the connect-meet client: the usePlacesSearch hook             *)
(* (src/src/hooks/useGeocoding.ts, lines 97-217) and its ranking pipeline, *)
(* the useGeocoding hook, and the Friends, Marketplace and Interests       *)
(* pages.                                                                  *)
(*                                                                         *)
(* Numbers.  Coordinates are whole degrees; the inputs lie on a 30-degree  *)
(* grid, so that every angle handed to sin and cos is a multiple of 15     *)
(* degrees and its value is read from a table scaled by 1000; a computed   *)
(* midpoint may lie between grid points, where the table is interpolated.  *)
(* Distances are whole kilometres.  The two non-numbers JavaScript         *)
(* produces in this code, undefined and NaN, are kept as values of their   *)
(* own.                                                                    *)
(***************************************************************************)
EXTENDS Integers, Sequences, FiniteSets, TLC

VARIABLES
    isLoading,   \* usePlacesSearch: const [isLoading, setIsLoading] = useState(false)
    error,       \* usePlacesSearch: const [error, setError] = useState(null)
    calls,       \* the invocations of searchPlaces: locals and position of each
    points,      \* the points handed to calculateMidpoint or calculateDistance
    returned,    \* what the function applied to points returned
    geocoding,   \* useGeocoding: the isLoading and error cells of the hook
    geocodes,    \* the invocations of geocode: locals and position of each
    page,        \* the page that is mounted: "friends", "marketplace", "interests", "dashboard"
    user,        \* const { user } = useAuth()
    title,       \* const [title, setTitle] = useState("")
    selectedType,    \* useState("coffee")
    locations,       \* FriendsMeetup: useState<LocationData[]>([...])
    yourLocation,    \* MarketplaceMeetup: useState<LocationData>({...})
    buyerLocation,   \* MarketplaceMeetup: useState<LocationData>({...})
    clock,           \* what Date.now() returned last, and how often it was read
    places,          \* useState<Place[]>([])
    selectedPlace,   \* useState<Place | null>(null)
    midpoint,        \* useState<{ lat, lng } | null>(null)
    isSaving,        \* useState(false)
    save,            \* saveMeetup: the insert it awaits and what it holds
    meetups,         \* the rows of public.meetups
    participants,    \* the rows of public.meetup_participants
    lookups,         \* the address searches and GPS fixes of AddressInput in flight
    toast,           \* the message of the last toast
    myInterests,     \* InterestsMeetup: useState<Interest[]>([])
    newInterest,     \* useState("")
    matchedUsers,    \* useState<MatchedUser[]>([])
    interestsLoading,    \* InterestsMeetup: const [isLoading, setIsLoading] = useState(false)
    isSearching,     \* useState(false)
    user_interests,  \* the rows of public.user_interests
    uuids,           \* the ids gen_random_uuid() has given to rows of user_interests
    requests         \* the requests of the Interests page that have not settled

\* the state of usePlacesSearch
hookVars == <<isLoading, error, calls>>

\* the argument and the result of a geometry function
geoVars == <<points, returned>>

\* the state of useGeocoding
geocodeVars == <<geocoding, geocodes>>

\* the cells of the Interests page, the table it works on, and its requests
interestVars == <<myInterests, newInterest, matchedUsers, interestsLoading, isSearching,
                  user_interests, uuids, requests>>

vars == <<isLoading, error, calls, points, returned, geocoding, geocodes, page, user,
          title, selectedType, locations, yourLocation, buyerLocation, clock, places,
          selectedPlace, midpoint, isSaving, save, meetups, participants, lookups, toast,
          myInterests, newInterest, matchedUsers, interestsLoading, isSearching,
          user_interests, uuids, requests>>

-----------------------------------------------------------------------------
(* JavaScript values *)

\* null, as the value of a string-or-null state cell
null == "<null>"
\* undefined, as the value of a number-or-undefined expression
undefined == -1000001
\* undefined, as the value of a string-or-undefined expression
undefinedStr == "<undefined>"
\* NaN, the result of arithmetic on undefined
NaN == -1000002

IsNum(v) == v # undefined /\ v # NaN

\* ToBoolean of a number-or-undefined: 0, NaN and undefined are falsy
TruthyNum(v) == IsNum(v) /\ v # 0

\* ToBoolean of a string: the empty string is falsy
TruthyStr(s) == s # ""

\* obj.key on an object literal: undefined when the key is absent
Has(obj, key) == key \in DOMAIN obj

-----------------------------------------------------------------------------
(* Math *)

\* sin of 0, 15, ..., 90 degrees, times 1000
SinTab == <<0, 259, 500, 707, 866, 966, 1000>>

\* sin of m degrees times 1000, 0 <= m <= 90: the table entry at a multiple of
\* 15 degrees, and the chord between the two nearest entries elsewhere
SinQuarter(m) ==
    LET k == (m \div 15) + 1
        r == m % 15
    IN  IF r = 0 THEN SinTab[k]
        ELSE SinTab[k] + ((SinTab[k + 1] - SinTab[k]) * r) \div 15

\* Math.sin(d * Math.PI / 180) * 1000, d in whole degrees
SinDeg(d) ==
    LET m == d % 360 IN
    IF m <= 90 THEN SinQuarter(m)
    ELSE IF m <= 180 THEN SinQuarter(180 - m)
    ELSE IF m <= 270 THEN 0 - SinQuarter(m - 180)
    ELSE 0 - SinQuarter(360 - m)

\* Math.cos(d * Math.PI / 180) * 1000
CosDeg(d) == SinDeg(d + 90)

RECURSIVE SqrtBits(_, _, _)
\* largest r with r*r <= n, found bit by bit from the top
SqrtBits(n, r, bit) ==
    IF bit = 0 THEN r
    ELSE IF (r + bit) * (r + bit) <= n THEN SqrtBits(n, r + bit, bit \div 2)
    ELSE SqrtBits(n, r, bit \div 2)

\* Math.sqrt(n / 10^6) * 1000, for 0 <= n <= 10^6
Sqrt(n) == SqrtBits(n, 0, 512)

\* atan(t / 1000) in milliradians for 0 <= t <= 1000
AtanUnit(t) == (t * (785 + (273 * (1000 - t)) \div 1000)) \div 1000

\* Math.atan2(y, x) in milliradians, for y >= 0 and x >= 0
AtanQuadrant(y, x) ==
    IF y = 0 THEN 0
    ELSE IF y <= x THEN AtanUnit((y * 1000) \div x)
    ELSE 1571 - AtanUnit((x * 1000) \div y)

\* Math.atan2(y, x) in milliradians, in (-pi, pi]
Atan2(y, x) ==
    IF y >= 0
    THEN IF x >= 0 THEN AtanQuadrant(y, x) ELSE 3142 - AtanQuadrant(y, 0 - x)
    ELSE IF x >= 0 THEN 0 - AtanQuadrant(0 - y, x)
         ELSE 0 - (3142 - AtanQuadrant(0 - y, 0 - x))

\* a / b for b > 0, rounded toward zero
Quot(a, b) == IF a >= 0 THEN a \div b ELSE 0 - ((0 - a) \div b)

\* radians * (180 / Math.PI): milliradians to the nearest whole degree
ToDegrees(mrad) ==
    IF mrad >= 0 THEN (mrad * 180000 + 1570796) \div 3141593
    ELSE 0 - (((0 - mrad) * 180000 + 1570796) \div 3141593)

\* The significand of the number format, in bits.  A double carries 53; the
\* model scales it with its numbers, so that every table entry and every
\* product of two of them is exact and a sum beyond 1023 is rounded.
SigBits == 10

RECURSIVE Pow2(_)
Pow2(n) == IF n = 0 THEN 1 ELSE 2 * Pow2(n - 1)

RECURSIVE UlpFrom(_, _)
\* the spacing of the format's numbers around a >= 0
UlpFrom(a, u) == IF a < u * Pow2(SigBits) THEN u ELSE UlpFrom(a, 2 * u)

\* a >= 0 rounded to the nearest number of the format, ties to even
RoundMagnitude(a) ==
    LET u == UlpFrom(a, 1)
        q == a \div u
        r == a % u
    IN  IF 2 * r > u \/ (2 * r = u /\ q % 2 = 1) THEN (q + 1) * u ELSE q * u

\* the number of the format nearest to v
Fl(v) == IF v >= 0 THEN RoundMagnitude(v) ELSE 0 - RoundMagnitude(0 - v)

\* a + b as the format computes it
Add(a, b) == Fl(a + b)

-----------------------------------------------------------------------------
(* useGeocoding.ts, lines 115-139 *)

OVERPASS_API_URL == "https://overpass-api.de/api/interpreter"

\* the own entries of the TYPE_TO_OSM_TAGS object literal
TYPE_TO_OSM_TAGS ==
    [police     |-> "[\"amenity\"=\"police\"]",
     coffee     |-> "[\"amenity\"=\"cafe\"]",
     mall       |-> "[\"shop\"=\"mall\"]",
     bank       |-> "[\"amenity\"=\"bank\"]",
     library    |-> "[\"amenity\"=\"library\"]",
     restaurant |-> "[\"amenity\"=\"restaurant\"]",
     fastfood   |-> "[\"amenity\"=\"fast_food\"]"]

\* TYPE_TO_OSM_TAGS is a plain object literal: a key it does not own is looked
\* up on Object.prototype, whose members are functions (and __proto__, an object)
ObjectPrototypeKeys ==
    {"constructor", "toString", "toLocaleString", "valueOf", "hasOwnProperty",
     "isPrototypeOf", "propertyIsEnumerable", "__proto__"}

\* the text a member of Object.prototype becomes inside a template literal
InheritedText(key) ==
    IF key = "__proto__" THEN "[object Object]"
    ELSE IF key = "constructor" THEN "function Object() { [native code] }"
    ELSE "function " \o key \o "() { [native code] }"

DefaultOsmTag == "[\"amenity\"=\"cafe\"]"

\* const osmTag = TYPE_TO_OSM_TAGS[type] || '["amenity"="cafe"]', as interpolated
OsmTag(type) ==
    IF type \in DOMAIN TYPE_TO_OSM_TAGS THEN TYPE_TO_OSM_TAGS[type]
    ELSE IF type \in ObjectPrototypeKeys THEN InheritedText(type)
    ELSE DefaultOsmTag

\* radius: number = 5000
DefaultRadius == 5000

RadiusOrDefault(radius) == IF radius = undefined THEN DefaultRadius ELSE radius

Around(radius, lat, lng) ==
    "(around:" \o ToString(radius) \o "," \o ToString(lat) \o "," \o ToString(lng) \o ");"

\* the Overpass QL text of lines 156-163
Query(osmTag, radius, lat, lng) ==
    "[out:json][timeout:25];(node" \o osmTag \o Around(radius, lat, lng)
        \o "way" \o osmTag \o Around(radius, lat, lng) \o ");out body center;"

\* Earth's radius in km
R == 6371

\* a haversine term that takes the cosine of the first latitude twice
HaversineAFirstLatitude(lat1, lng1, lat2, lng2) ==
    LET dLat == lat2 - lat1
        dLng == lng2 - lng1
        sLat == SinDeg(Quot(dLat, 2))
        sLng == SinDeg(Quot(dLng, 2))
    IN  sLat * sLat
          + (((CosDeg(lat1) * CosDeg(lat1)) \div 1000) * (sLng * sLng)) \div 1000

\* a of the haversine formula, times 10^6
HaversineA(lat1, lng1, lat2, lng2) ==
    LET dLat == lat2 - lat1
        dLng == lng2 - lng1
        sLat == SinDeg(Quot(dLat, 2))
        sLng == SinDeg(Quot(dLng, 2))
    IN  sLat * sLat
          + (((CosDeg(lat1) * CosDeg(lat2)) \div 1000) * (sLng * sLng)) \div 1000

\* calculateDistance, in whole km; NaN when an argument is not a number
calculateDistance(lat1, lng1, lat2, lng2) ==
    IF ~(IsNum(lat1) /\ IsNum(lng1) /\ IsNum(lat2) /\ IsNum(lng2)) THEN NaN
    ELSE LET a == HaversineA(lat1, lng1, lat2, lng2) IN
         IF a > 1000000 THEN NaN
         ELSE LET c == 2 * Atan2(Sqrt(a), Sqrt(1000000 - a)) IN (R * c) \div 1000

-----------------------------------------------------------------------------
(* calculateMidpoint: FriendsMeetup.tsx lines 90-114, MarketplaceMeetup.tsx  *)
(* lines 48-71                                                              *)

\* { lat: number; lng: number }
Point(lat, lng) == [lat |-> lat, lng |-> lng]

\* Math.cos(latRad) * Math.cos(lngRad), times 1000
UnitX(p) == Quot(CosDeg(p.lat) * CosDeg(p.lng), 1000)

\* Math.cos(latRad) * Math.sin(lngRad), times 1000
UnitY(p) == Quot(CosDeg(p.lat) * SinDeg(p.lng), 1000)

\* Math.sin(latRad), times 1000
UnitZ(p) == SinDeg(p.lat)

RECURSIVE SumUnits(_, _)
\* locs.forEach(...): x += ..., y += ..., z += ..., in the order of locs
SumUnits(locs, acc) ==
    IF locs = <<>> THEN acc
    ELSE SumUnits(Tail(locs),
                  [x |-> Add(acc.x, UnitX(Head(locs))),
                   y |-> Add(acc.y, UnitY(Head(locs))),
                   z |-> Add(acc.z, UnitZ(Head(locs)))])

\* lines 103-113: the angles of the vector (x, y, z), in degrees
Angles(x, y, z) ==
    LET lngMid == Atan2(y, x)
        hyp == Sqrt(x * x + y * y)
        latMid == Atan2(z, hyp)
    IN  [lat |-> ToDegrees(latMid), lng |-> ToDegrees(lngMid)]

\* FriendsMeetup.tsx calculateMidpoint(locs); 0 / 0 is NaN for an empty locs
calculateMidpoint(locs) ==
    LET sum == SumUnits(locs, [x |-> 0, y |-> 0, z |-> 0]) IN
    IF Len(locs) = 0 THEN [lat |-> NaN, lng |-> NaN]
    ELSE Angles(Quot(sum.x, Len(locs)), Quot(sum.y, Len(locs)), Quot(sum.z, Len(locs)))

\* MarketplaceMeetup.tsx calculateMidpoint(loc1, loc2)
MarketplaceCalculateMidpoint(loc1, loc2) ==
    LET sum == SumUnits(<<loc1, loc2>>, [x |-> 0, y |-> 0, z |-> 0]) IN
    Angles(Quot(sum.x, 2), Quot(sum.y, 2), Quot(sum.z, 2))

-----------------------------------------------------------------------------
(* searchPlaces, lines 180-201: filter, map, sort, slice *)

\* a filter that asks only whether the name tag exists
HasNameTag(el) == Has(el, "tags") /\ Has(el.tags, "name")

\* .filter((el) => el.tags?.name)
HasName(el) == Has(el, "tags") /\ Has(el.tags, "name") /\ TruthyStr(el.tags.name)

\* el.center?.lat and el.center?.lon
CenterCoord(el, key) ==
    IF Has(el, "center") /\ Has(el.center, key) THEN el.center[key] ELSE undefined

\* el.lat || el.center?.lat
placeLat(el) ==
    IF Has(el, "lat") /\ TruthyNum(el.lat) THEN el.lat ELSE CenterCoord(el, "lat")

\* el.lon || el.center?.lon
placeLng(el) ==
    IF Has(el, "lon") /\ TruthyNum(el.lon) THEN el.lon ELSE CenterCoord(el, "lon")

\* tags[key] of a present tag, "" standing for the falsy undefined
Tag(el, key) == IF Has(el.tags, key) THEN el.tags[key] ELSE ""

\* el.tags.shop || el.tags.amenity || type
PlaceTypeShopFirst(el, type) ==
    IF TruthyStr(Tag(el, "shop")) THEN Tag(el, "shop")
    ELSE IF TruthyStr(Tag(el, "amenity")) THEN Tag(el, "amenity")
    ELSE type

\* el.tags.amenity || el.tags.shop || type
PlaceType(el, type) ==
    IF TruthyStr(Tag(el, "amenity")) THEN Tag(el, "amenity")
    ELSE IF TruthyStr(Tag(el, "shop")) THEN Tag(el, "shop")
    ELSE type

\* seq.filter(Boolean)
FilterBoolean(seq) == SelectSeq(seq, TruthyStr)

RECURSIVE Join(_, _)
\* seq.join(sep)
Join(seq, sep) ==
    IF seq = <<>> THEN ""
    ELSE IF Len(seq) = 1 THEN seq[1]
    ELSE seq[1] \o sep \o Join(Tail(seq), sep)

\* [street, housenumber, city].join(', ') || undefined
PlaceAddressUnfiltered(el) ==
    LET joined == Join(<<Tag(el, "addr:street"), Tag(el, "addr:housenumber"),
                         Tag(el, "addr:city")>>, ", ")
    IN  IF TruthyStr(joined) THEN joined ELSE undefinedStr

\* [street, housenumber, city].filter(Boolean).join(', ') || undefined
PlaceAddress(el) ==
    LET joined == Join(FilterBoolean(<<Tag(el, "addr:street"),
                                       Tag(el, "addr:housenumber"),
                                       Tag(el, "addr:city")>>), ", ")
    IN  IF TruthyStr(joined) THEN joined ELSE undefinedStr

\* the object literal of lines 186-198
MakePlace(el, lat, lng, type) ==
    [id       |-> ToString(el.id),
     name     |-> el.tags.name,
     type     |-> PlaceType(el, type),
     lat      |-> placeLat(el),
     lng      |-> placeLng(el),
     address  |-> PlaceAddress(el),
     distance |-> calculateDistance(lat, lng, placeLat(el), placeLng(el))]

\* (a.distance || 0)
SortKey(p) == IF TruthyNum(p.distance) THEN p.distance ELSE 0

RECURSIVE Insert(_, _)
\* p put behind every entry whose key is <= its own (Array.prototype.sort is stable)
Insert(sorted, p) ==
    IF sorted = <<>> THEN <<p>>
    ELSE IF SortKey(Head(sorted)) - SortKey(p) <= 0
         THEN <<Head(sorted)>> \o Insert(Tail(sorted), p)
         ELSE <<p>> \o sorted

RECURSIVE SortByDistance(_)
\* .sort((a, b) => (a.distance || 0) - (b.distance || 0))
SortByDistance(seq) ==
    IF seq = <<>> THEN <<>>
    ELSE Insert(SortByDistance(SubSeq(seq, 1, Len(seq) - 1)), seq[Len(seq)])

\* the end index of .slice(0, 10)
SliceEnd == 10

\* .slice(0, 10)
Slice(seq) == SubSeq(seq, 1, IF Len(seq) < SliceEnd THEN Len(seq) ELSE SliceEnd)

\* .filter(...): the named elements, in response order
Named(elements) == SelectSeq(elements, HasName)

\* .map(...)
MapPlaces(elements, lat, lng, type) ==
    [i \in 1..Len(elements) |-> MakePlace(elements[i], lat, lng, type)]

\* const places = data.elements.filter(...).map(...).sort(...).slice(0, 10)
Places(elements, lat, lng, type) ==
    Slice(SortByDistance(MapPlaces(Named(elements), lat, lng, type)))

-----------------------------------------------------------------------------
(* The point-of-interest index: what a request may come back with *)

Node(lat, lon, tags) == [type |-> "node", lat |-> lat, lon |-> lon, tags |-> tags]

Way(lat, lon, tags) == [type |-> "way", center |-> [lat |-> lat, lon |-> lon], tags |-> tags]

\* the element shapes of an "out body center" response, and the shapes a
\* response is free to take besides: no tags, no name, no coordinates
Shapes ==
    << Node(30, 30, [name |-> "Alba", amenity |-> "cafe"]),
       Way(30, 60, [name |-> "Bazaar", shop |-> "mall"]
                   @@ ("addr:street" :> "Main St") @@ ("addr:city" :> "Quito")),
       [type |-> "node", lat |-> 30, lon |-> 30],
       Node(60, 30, [name |-> "Cima"]
                    @@ ("addr:street" :> "High St") @@ ("addr:housenumber" :> "7")
                    @@ ("addr:city" :> "Oslo")),
       Node(30, 60, [amenity |-> "cafe"]),
       Node(0, -150, [name |-> "Equator", amenity |-> "bank"]),
       Node(-30, 60, [name |-> "Delta", amenity |-> "", shop |-> "bakery"]),
       Node(30, 30, [name |-> "", amenity |-> "cafe"]),
       Node(60, 0, [name |-> "Meridian"] @@ ("addr:housenumber" :> "12")),
       Way(0, 0, [name |-> "Origin", amenity |-> "library"]),
       [type |-> "relation", tags |-> [name |-> "Nowhere", amenity |-> "police"]],
       [type |-> "node", lat |-> 0, lon |-> 30, center |-> [lat |-> 30, lon |-> 60],
        tags |-> [name |-> "Mixed"]],
       Node(-60, 150, [name |-> "Far", amenity |-> "restaurant"]),
       Node(30, -30, [name |-> "Gate"] @@ ("addr:city" :> "Lima")),
       Node(60, 90, [name |-> "Harbor", shop |-> "mall"]),
       Way(-30, -60, [name |-> "Isla", amenity |-> "fast_food"]),
       Node(30, 90, [name |-> "Jade", amenity |-> "cafe", shop |-> "books"]
                    @@ ("addr:street" :> "Elm St") @@ ("addr:housenumber" :> "3")),
       Node(60, 60, [name |-> "Kiosk", shop |-> "kiosk"]
                    @@ ("addr:street" :> "") @@ ("addr:housenumber" :> "5")
                    @@ ("addr:city" :> "Rome")),
       Node(60, -60, [name |-> "Lane"] @@ ("addr:street" :> "Mill Ln")) >>

NShapes == Len(Shapes)

\* the longest elements array a response carries
MaxElems == 14

\* the element ids of one response are distinct
ElementsOf(n, start, stride) ==
    [i \in 1..n |->
        Shapes[((start - 1 + (i - 1) * stride) % NShapes) + 1] @@ [id |-> 100 + i]]

ElementLists ==
    {ElementsOf(n, start, stride) : n \in 0..MaxElems, start \in 1..NShapes, stride \in {0, 1, 5}}

\* the body of a response: not JSON, JSON without an elements array, or a result
BodyOf(elements) == [parses |-> TRUE, data |-> [elements |-> elements]]

NotJson == [parses |-> FALSE]

NoElements == [parses |-> TRUE, data |-> [remark |-> "runtime error: Query timed out"]]

HttpOk(body) == [ok |-> TRUE, body |-> body]

HttpError == [ok |-> FALSE, body |-> NotJson]

NoResponse == [ok |-> FALSE, body |-> [parses |-> FALSE]]

\* what fetch rejects with: an Error, or a value that is not one
FetchErrors == {[isError |-> TRUE, message |-> "Failed to fetch"],
                [isError |-> FALSE, message |-> ""]}

Responses == {HttpError, HttpOk(NotJson), HttpOk(NoElements)}
                 \cup {HttpOk(BodyOf(e)) : e \in ElementLists}

SmallResponses ==
    {HttpError, HttpOk(NoElements), HttpOk(BodyOf(<<>>)),
     HttpOk(BodyOf(ElementsOf(1, 3, 0))), HttpOk(BodyOf(ElementsOf(2, 1, 1)))}

Centers == {[lat |-> 30, lng |-> 30], [lat |-> 0, lng |-> 0]}

Types == {"coffee", "mall", "park", "constructor"}

Radii == {undefined, 10000}

-----------------------------------------------------------------------------
(* usePlacesSearch, lines 141-217 *)

\* the searchPlaces invocations that may be in flight together
MaxCalls == 2

Calls == 1..MaxCalls

\* the promise searchPlaces returned
Pending == [state |-> "pending", value |-> <<>>]

Fulfilled(value) == [state |-> "fulfilled", value |-> value]

\* an invocation that has not started: its arguments and locals, the number of
\* requests it has issued, the failures it has recorded, and its promise
IdleCall ==
    [pc |-> "idle", lat |-> 0, lng |-> 0, type |-> "", radius |-> 0, query |-> "",
     requests |-> 0, failures |-> 0, response |-> NoResponse, promise |-> Pending]

\* `No ${type} found nearby. Try a different location type.`
NotFoundMessage(type) == "No " \o type \o " found nearby. Try a different location type."

\* err instanceof Error ? err.message : 'Search failed'
ErrorMessage(err) == IF err.isError THEN err.message ELSE "Search failed"

\* new Error('Failed to search for places')
SearchFailed == [isError |-> TRUE, message |-> "Failed to search for places"]

\* what response.json() rejects with
JsonSyntaxError == [isError |-> TRUE, message |-> "Unexpected token < in JSON at position 0"]

\* what data.elements.filter throws when data has no elements
ElementsTypeError ==
    [isError |-> TRUE, message |-> "Cannot read properties of undefined (reading 'filter')"]

\* an invocation that is awaiting its fetch or its response.json()
InFlight(i) == calls[i].pc \in {"fetch", "json"}

\* lines 151-172: the synchronous head of searchPlaces, up to the awaited fetch
Started(lat, lng, type, radius) ==
    [IdleCall EXCEPT !.pc = "fetch", !.lat = lat, !.lng = lng, !.type = type,
                     !.radius = RadiusOrDefault(radius),
                     !.query = Query(OsmTag(type), RadiusOrDefault(radius), lat, lng),
                     !.requests = 1]

\* a catch block that issues the request again
CaughtRetrying(c) ==
    [c EXCEPT !.pc = "fetch", !.failures = c.failures + 1, !.requests = c.requests + 1]

\* lines 208-210: catch (err) { setError(...); return []; }
Caught(c) ==
    [c EXCEPT !.pc = "done", !.failures = c.failures + 1, !.promise = Fulfilled(<<>>)]

\* an empty result that leaves the error cell alone
ErrorAfterSearchKept(found, type, err) == err

\* lines 203-205: the error cell after the places were computed
ErrorAfterSearch(found, type, err) ==
    IF Len(found) = 0 THEN NotFoundMessage(type) ELSE err

\* line 207: return places
Returned(c, found) == [c EXCEPT !.pc = "done", !.promise = Fulfilled(found)]

searchPlaces(i, lat, lng, type, radius) ==
    /\ calls[i].pc \in {"idle", "done"}
    /\ isLoading' = TRUE
    /\ error' = null
    /\ calls' = [calls EXCEPT ![i] = Started(lat, lng, type, radius)]

\* a catch block without the finally block
ThrowWithoutFinally(i, c, err) ==
    /\ error' = ErrorMessage(err)
    /\ isLoading' = isLoading
    /\ calls' = [calls EXCEPT ![i] = Caught(c)]

\* the catch and finally blocks, lines 208-213
Throw(i, c, err) ==
    /\ error' = ErrorMessage(err)
    /\ isLoading' = FALSE
    /\ calls' = [calls EXCEPT ![i] = Caught(c)]

\* await fetch(...) rejects
fetchRejects(i, err) ==
    /\ calls[i].pc = "fetch"
    /\ Throw(i, calls[i], err)

\* await fetch(...) resolves: lines 174-178, up to the awaited response.json()
fetchResolves(i, response) ==
    /\ calls[i].pc = "fetch"
    /\ LET c == [calls[i] EXCEPT !.response = response] IN
       IF ~response.ok
       THEN Throw(i, c, SearchFailed)
       ELSE /\ calls' = [calls EXCEPT ![i] = [c EXCEPT !.pc = "json"]]
            /\ UNCHANGED <<isLoading, error>>

\* await response.json() settles: lines 178-213
jsonSettles(i) ==
    /\ calls[i].pc = "json"
    /\ LET c == calls[i]
           body == c.response.body
       IN  IF ~body.parses THEN Throw(i, c, JsonSyntaxError)
           ELSE IF ~Has(body.data, "elements") THEN Throw(i, c, ElementsTypeError)
           ELSE LET found == Places(body.data.elements, c.lat, c.lng, c.type) IN
                /\ error' = ErrorAfterSearch(found, c.type, error)
                /\ isLoading' = FALSE
                /\ calls' = [calls EXCEPT ![i] = Returned(c, found)]

-----------------------------------------------------------------------------
(* useGeocoding, lines 19-95: geocode *)

\* null, as the value of an object-or-null expression
nullObject == [null |-> TRUE]

\* A text is a sequence of characters.
WhiteSpace == {" ", "\t", "\n"}

RECURSIVE TrimStart(_)
TrimStart(text) ==
    IF text # <<>> /\ Head(text) \in WhiteSpace THEN TrimStart(Tail(text)) ELSE text

RECURSIVE TrimEnd(_)
TrimEnd(text) ==
    IF text # <<>> /\ text[Len(text)] \in WhiteSpace
    THEN TrimEnd(SubSeq(text, 1, Len(text) - 1))
    ELSE text

\* String.prototype.trim
Trim(text) == TrimEnd(TrimStart(text))

\* encodeURIComponent of one character
EncodeChar(c) ==
    IF c = " " THEN <<"%", "2", "0">>
    ELSE IF c = "\t" THEN <<"%", "0", "9">>
    ELSE IF c = "\n" THEN <<"%", "0", "A">>
    ELSE IF c = "," THEN <<"%", "2", "C">>
    ELSE <<c>>

RECURSIVE encodeURIComponent(_)
encodeURIComponent(text) ==
    IF text = <<>> THEN <<>>
    ELSE EncodeChar(Head(text)) \o encodeURIComponent(Tail(text))

DigitValue(c) ==
    CASE c = "0" -> 0 [] c = "1" -> 1 [] c = "2" -> 2 [] c = "3" -> 3 [] c = "4" -> 4
      [] c = "5" -> 5 [] c = "6" -> 6 [] c = "7" -> 7 [] c = "8" -> 8 [] c = "9" -> 9
      [] OTHER -> undefined

RECURSIVE ParseDigits(_, _)
\* the value of the digits text starts with, behind the digits read so far
ParseDigits(text, sofar) ==
    IF text = <<>> \/ DigitValue(Head(text)) = undefined THEN sofar
    ELSE ParseDigits(Tail(text),
                     (IF sofar = NaN THEN 0 ELSE sofar * 10) + DigitValue(Head(text)))

\* parseFloat on whole numbers: leading white space, a sign, then the longest
\* run of digits; NaN when there is no digit
parseFloat(text) ==
    LET t == TrimStart(text) IN
    IF t # <<>> /\ Head(t) = "-"
    THEN LET v == ParseDigits(Tail(t), NaN) IN IF v = NaN THEN NaN ELSE 0 - v
    ELSE IF t # <<>> /\ Head(t) = "+" THEN ParseDigits(Tail(t), NaN)
    ELSE ParseDigits(t, NaN)

\* String(undefined), the text parseFloat reads from a missing property
undefinedText == <<"u", "n", "d", "e", "f", "i", "n", "e", "d">>

\* the search request of lines 33-40
SearchUrl(address) == [path |-> "/search", q |-> encodeURIComponent(address), limit |-> 1]

\* an invocation of geocode that has not started
IdleGeocode ==
    [pc |-> "idle", address |-> <<>>, requests |-> <<>>, response |-> NoResponse,
     promise |-> Pending]

\* what an async function's promise holds when an exception leaves the function
Rejected(err) == [state |-> "rejected", value |-> err]

\* new Error('Failed to geocode address')
GeocodeFailed == [isError |-> TRUE, message |-> "Failed to geocode address"]

\* what data[0].lat throws when data has no entry 0
GeocodeTypeError ==
    [isError |-> TRUE, message |-> "Cannot read properties of undefined (reading 'lat')"]

\* what data.length throws when data is null
GeocodeNullError ==
    [isError |-> TRUE, message |-> "Cannot read properties of null (reading 'length')"]

\* err instanceof Error ? err.message : 'Geocoding failed'
GeocodeErrorMessage(err) == IF err.isError THEN err.message ELSE "Geocoding failed"

\* lines 24-27: the empty address
GeocodeRefused(address) ==
    [IdleGeocode EXCEPT !.pc = "done", !.address = address,
                        !.promise = Fulfilled(nullObject)]

\* lines 29-40: the synchronous head of geocode, up to the awaited fetch
GeocodeStarted(address) ==
    [IdleGeocode EXCEPT !.pc = "fetch", !.address = address,
                        !.requests = <<SearchUrl(address)>>]

\* a catch block that lets the exception through
GeocodeCaughtRethrown(c, err) == [c EXCEPT !.pc = "done", !.promise = Rejected(err)]

\* lines 58-60: catch (err) { setError(...); return null; }
GeocodeCaught(c, err) == [c EXCEPT !.pc = "done", !.promise = Fulfilled(nullObject)]

\* String(data[0][key]): the text "undefined" when the key is absent
Field(obj, key) == IF key \in DOMAIN obj THEN obj[key] ELSE undefinedText

\* lines 53-57: the result object
GeocodingResult(entry) ==
    [lat |-> parseFloat(Field(entry, "lat")),
     lng |-> parseFloat(Field(entry, "lon")),
     displayName |-> IF "display_name" \in DOMAIN entry THEN entry.display_name
                     ELSE undefinedStr]

\* !address.trim()
IsEmptyAddress(address) == Trim(address) = <<>>

geocode(i, address) ==
    /\ geocodes[i].pc \in {"idle", "done"}
    /\ IF IsEmptyAddress(address)
       THEN /\ geocoding' = [geocoding EXCEPT !.error = "Please enter an address"]
            /\ geocodes' = [geocodes EXCEPT ![i] = GeocodeRefused(address)]
       ELSE /\ geocoding' = [isLoading |-> TRUE, error |-> null]
            /\ geocodes' = [geocodes EXCEPT ![i] = GeocodeStarted(address)]

\* the catch and finally blocks, lines 58-63
GeocodeThrow(i, c, err) ==
    /\ geocoding' = [isLoading |-> FALSE, error |-> GeocodeErrorMessage(err)]
    /\ geocodes' = [geocodes EXCEPT ![i] = GeocodeCaught(c, err)]

\* await fetch(...) rejects
geocodeFetchRejects(i, err) ==
    /\ geocodes[i].pc = "fetch"
    /\ GeocodeThrow(i, geocodes[i], err)

\* await fetch(...) resolves: lines 42-46, up to the awaited response.json()
geocodeFetchResolves(i, response) ==
    /\ geocodes[i].pc = "fetch"
    /\ LET c == [geocodes[i] EXCEPT !.response = response] IN
       IF ~response.ok
       THEN GeocodeThrow(i, c, GeocodeFailed)
       ELSE /\ geocodes' = [geocodes EXCEPT ![i] = [c EXCEPT !.pc = "json"]]
            /\ UNCHANGED geocoding

\* await response.json() settles: lines 46-63
geocodeJsonSettles(i) ==
    /\ geocodes[i].pc = "json"
    /\ LET c == geocodes[i]
           body == c.response.body
       IN  IF ~body.parses THEN GeocodeThrow(i, c, JsonSyntaxError)
           ELSE IF body.data = nullObject THEN GeocodeThrow(i, c, GeocodeNullError)
           ELSE IF body.data.isArray /\ Len(body.data.items) = 0
           THEN /\ geocoding' = [isLoading |-> FALSE, error |-> "Address not found"]
                /\ geocodes' = [geocodes EXCEPT ![i] =
                                    [c EXCEPT !.pc = "done",
                                              !.promise = Fulfilled(nullObject)]]
           ELSE IF ~body.data.isArray THEN GeocodeThrow(i, c, GeocodeTypeError)
           ELSE /\ geocoding' = [geocoding EXCEPT !.isLoading = FALSE]
                /\ geocodes' = [geocodes EXCEPT ![i] =
                                    [c EXCEPT !.pc = "done",
                                              !.promise = Fulfilled(
                                                  GeocodingResult(body.data.items[1]))]]

\* the geocode invocations that may be in flight together
MaxGeocodes == 2

Geocodes == 1..MaxGeocodes

\* the addresses geocode is called with
Addresses ==
    {<<>>, <<" ">>, <<" ", "\t">>, <<"R", "o", "m", "e">>, <<" ", "L", "i", "m", "a", " ">>,
     <<"Q", ",", " ", "1">>}

\* the JSON documents Nominatim may answer with
JsonArray(items) == [isArray |-> TRUE, items |-> items]

JsonObject == [isArray |-> FALSE, error |-> "Unable to geocode"]

GeocodeBodies ==
    {NotJson,
     [parses |-> TRUE, data |-> nullObject],
     [parses |-> TRUE, data |-> JsonObject],
     [parses |-> TRUE, data |-> JsonArray(<<>>)],
     [parses |-> TRUE, data |-> JsonArray(<<[lat |-> <<"3", "0">>, lon |-> <<"-", "6", "0">>,
                                             display_name |-> "Roma, Lazio, Italia"]>>)],
     [parses |-> TRUE, data |-> JsonArray(<<[lat |-> <<"x">>, display_name |-> "Lima"],
                                            [lat |-> <<"0">>, lon |-> <<"0">>]>>)]}

GeocodeResponses == {HttpError} \cup {HttpOk(b) : b \in GeocodeBodies}

-----------------------------------------------------------------------------
(* The Friends and Marketplace pages: FriendsMeetup.tsx, MarketplaceMeetup.tsx *)
(* and the AddressInput component they render.                              *)
(*                                                                         *)
(* A handler is taken when its control lets the event through.  Where the  *)
(* handler itself tests what its control tests (a rendered or disabled     *)
(* condition repeated as a guard of the handler), the handler's guard      *)
(* decides, and the call the control would not have made ends in the       *)
(* handler's toast.                                                        *)

Pages == {"friends", "marketplace"}

\* PLACE_TYPES and SAFE_LOCATION_TYPES: the ids
PLACE_TYPES == {"coffee", "restaurant", "library", "mall"}

SAFE_LOCATION_TYPES == {"police", "coffee", "mall", "bank"}

TypeIds == IF page = "friends" THEN PLACE_TYPES ELSE SAFE_LOCATION_TYPES

\* useState<LocationData[]>([...]) of FriendsMeetup
InitialLocations ==
    << [id |-> "1", name |-> "You", address |-> <<>>, coords |-> nullObject],
       [id |-> "2", name |-> "Friend 1", address |-> <<>>, coords |-> nullObject] >>

\* useState<LocationData>({ address: "", coords: null }) of MarketplaceMeetup
NoLocation == [address |-> <<>>, coords |-> nullObject]

\* no insert is awaited
IdleSave == [pc |-> "idle", row |-> nullObject, yourLocation |-> nullObject]

\* the groups of cells a handler leaves alone
formVars == <<title, selectedType>>

locationVars == <<locations, yourLocation, buyerLocation, clock>>

placeVars == <<places, selectedPlace, midpoint>>

saveVars == <<isSaving, save, meetups, participants>>

routeVars == <<page, user>>

pageVars == <<page, user, title, selectedType, locations, yourLocation, buyerLocation,
              clock, places, selectedPlace, midpoint, isSaving, save, meetups,
              participants, lookups, toast>>

\* the text of a number, for template literals
FoundMessage(n) == "Found " \o ToString(n) \o " places nearby!"

NoPlacesMessage ==
    IF page = "friends" THEN "No places found. Try a different place type."
    ELSE "No places found. Try a different location type or check the addresses."

\* onChange={(e) => setTitle(e.target.value)}
setTitle(text) ==
    /\ page \in Pages
    /\ title' = text
    /\ UNCHANGED <<selectedType, locationVars, placeVars, saveVars, routeVars, lookups,
                   toast, hookVars, geoVars>>

\* onClick={() => setSelectedType(type.id)}
setSelectedType(type) ==
    /\ page \in Pages
    /\ type \in TypeIds
    /\ selectedType' = type
    /\ UNCHANGED <<title, locationVars, placeVars, saveVars, routeVars, lookups, toast,
                   hookVars, geoVars>>

\* the places a PlaceCard is rendered for
Rendered(place) == \E k \in 1..Len(places) : places[k] = place

\* handlePlaceSelect: setSelectedPlace(place)
handlePlaceSelect(place) ==
    /\ page \in Pages
    /\ Rendered(place)
    /\ selectedPlace' = place
    /\ UNCHANGED <<formVars, locationVars, places, midpoint, saveVars, routeVars, lookups,
                   toast, hookVars, geoVars>>

-----------------------------------------------------------------------------
(* handleFindPlaces: FriendsMeetup.tsx 116-136, MarketplaceMeetup.tsx 73-95 *)

\* the invocation slot a new call of searchPlaces takes
FreeCalls == {i \in Calls : calls[i].pc \in {"idle", "done"}}

FreeCall == CHOOSE i \in FreeCalls : \A j \in FreeCalls : i <= j

\* a Find button that stays enabled during a search
FindDisabledNever == FALSE

\* disabled={!canSearch || isSearching}: the part the handler does not test itself
FindDisabled == isLoading

\* locations.filter((loc) => loc.coords !== null)
validLocations == SelectSeq(locations, LAMBDA loc : loc.coords # nullObject)

\* validLocations.map((loc) => loc.coords!)
CoordsOf(locs) == [k \in 1..Len(locs) |-> locs[k].coords]

\* a guard that lets a single confirmed location through
TooFewLocationsNone(valid) == FALSE

\* validLocations.length < 2
TooFewLocations(valid) == Len(valid) < 2

\* lines 124-128 and 84-87: setMidpoint(mid), then searchPlaces up to its await
BeginSearch(fn, args, mid) ==
    /\ FreeCalls # {}
    /\ points' = args
    /\ returned' = [fn |-> fn, args |-> args, value |-> mid]
    /\ midpoint' = mid
    /\ searchPlaces(FreeCall, mid.lat, mid.lng, selectedType, 10000)
    /\ UNCHANGED <<formVars, locationVars, places, selectedPlace, saveVars, routeVars,
                   lookups, toast>>

\* a guard of handleFindPlaces fired: toast.error(message); return
Refuse(message) ==
    /\ toast' = message
    /\ UNCHANGED <<formVars, locationVars, placeVars, saveVars, routeVars, lookups,
                   hookVars, geoVars>>

FriendsHandleFindPlaces ==
    /\ page = "friends"
    /\ ~FindDisabled
    /\ IF TooFewLocations(validLocations)
       THEN Refuse("Please enter and search at least 2 addresses")
       ELSE BeginSearch("calculateMidpoint", CoordsOf(validLocations),
                        calculateMidpoint(CoordsOf(validLocations)))

\* !yourLocation.coords || !buyerLocation.coords
MissingCoords(your, buyer) == your.coords = nullObject \/ buyer.coords = nullObject

MarketplaceHandleFindPlaces ==
    /\ page = "marketplace"
    /\ ~FindDisabled
    /\ IF MissingCoords(yourLocation, buyerLocation)
       THEN Refuse("Please enter and search both addresses first")
       ELSE IF selectedType = null
       THEN Refuse("Please select a meeting spot type")
       ELSE BeginSearch("MarketplaceCalculateMidpoint",
                        <<yourLocation.coords, buyerLocation.coords>>,
                        MarketplaceCalculateMidpoint(yourLocation.coords,
                                                     buyerLocation.coords))

\* lines 128-135 and 87-94, behind the await: setPlaces(foundPlaces) and the
\* toast.  The continuation runs in the microtask that follows the one in
\* which searchPlaces returned, before any other event is handled.
AfterSearch(foundPlaces) ==
    /\ places' = foundPlaces
    /\ toast' = IF Len(foundPlaces) > 0 THEN FoundMessage(Len(foundPlaces))
                ELSE NoPlacesMessage
    /\ UNCHANGED <<formVars, locationVars, selectedPlace, midpoint, saveVars, routeVars,
                   lookups, geoVars>>

\* a step of searchPlaces that is not its last
StillSearching ==
    UNCHANGED <<pageVars, geoVars>>

\* await fetch(...) rejects on a page
searchRejects(i, err) ==
    /\ page \in Pages
    /\ fetchRejects(i, err)
    /\ AfterSearch(calls'[i].promise.value)

\* await fetch(...) resolves on a page
searchResponds(i, response) ==
    /\ page \in Pages
    /\ fetchResolves(i, response)
    /\ IF response.ok THEN StillSearching ELSE AfterSearch(calls'[i].promise.value)

\* await response.json() settles on a page
searchSettles(i) ==
    /\ page \in Pages
    /\ jsonSettles(i)
    /\ AfterSearch(calls'[i].promise.value)

-----------------------------------------------------------------------------
(* The locations: FriendsMeetup.tsx 52-88, MarketplaceMeetup.tsx 230-250,   *)
(* AddressInput.tsx 30-87                                                  *)

\* the locations a visitor adds to the initial two
MaxAdds == 2

\* Date.now() when the first location is added
FirstClock == 1001

\* what Date.now() may return: FirstClock at first, and then the value it
\* returned last, when the same millisecond is read again, or a later one
Now == IF clock.reads = 0 THEN {FirstClock} ELSE {clock.now, clock.now + 1}

\* the address lookups (searches and GPS fixes) that may be in flight together
MaxLookups == 1

\* the inputs of the Marketplace page
MarketplaceInputs == {"your", "buyer"}

\* the ids of a list of locations
Ids(locs) == {locs[k].id : k \in 1..Len(locs)}

\* the AddressInput components the page renders
Inputs == IF page = "friends" THEN Ids(locations) ELSE MarketplaceInputs

\* value={location.address}, value={yourLocation.address}, value={buyerLocation.address}
Value(input) ==
    IF page = "friends"
    THEN (CHOOSE loc \in {locations[k] : k \in 1..Len(locations)} : loc.id = input).address
    ELSE IF input = "your" THEN yourLocation.address ELSE buyerLocation.address

\* showGpsButton={index === 0}, and showGpsButton on "Your Location" only
showGpsButton(input) ==
    IF page = "friends" THEN locations[1].id = input ELSE input = "your"

\* isLoading || isGettingGps of the AddressInput: its geocode or its GPS fix is
\* in flight
Busy(input) == \E l \in lookups : l.input = input /\ l.mounted

\* the lookups once the page renders locs: a lookup whose AddressInput (keyed
\* by location.id) is no longer rendered goes on without its component
Remounted(ls, locs) ==
    {IF l.input \in Ids(locs) THEN l ELSE [l EXCEPT !.mounted = FALSE] : l \in ls}

\* the cell holds what the last of several setState(value) calls of one
\* handler gave it
LastWrite(values) == values[Len(values)]

\* addLocation, lines 52-58
addLocation ==
    /\ page = "friends"
    /\ clock.reads < MaxAdds
    /\ \E now \in Now :
           /\ locations' = Append(locations,
                                  [id |-> ToString(now),
                                   name |-> "Friend " \o ToString(Len(locations)),
                                   address |-> <<>>, coords |-> nullObject])
           /\ clock' = [now |-> now, reads |-> clock.reads + 1]
    /\ UNCHANGED <<formVars, yourLocation, buyerLocation, placeVars, saveVars, routeVars,
                   lookups, toast, hookVars, geoVars>>

\* locations.length <= 2
TooFewToRemove(locs) == Len(locs) <= 2

\* removeLocation, lines 60-70
removeLocation(id) ==
    /\ page = "friends"
    /\ id \in Ids(locations)
    /\ IF TooFewToRemove(locations)
       THEN /\ toast' = "You need at least 2 locations"
            /\ UNCHANGED <<formVars, locationVars, placeVars, saveVars, routeVars, lookups,
                           hookVars, geoVars>>
       ELSE /\ locations' = SelectSeq(locations, LAMBDA loc : loc.id # id)
            /\ places' = <<>>
            /\ selectedPlace' = nullObject
            /\ midpoint' = nullObject
            /\ lookups' = Remounted(lookups, locations')
            /\ UNCHANGED <<formVars, yourLocation, buyerLocation, clock, saveVars,
                           routeVars, toast, hookVars, geoVars>>

\* locations.map((loc) => loc.id === id ? { ...loc, name } : loc)
WithName(locs, id, name) ==
    [k \in 1..Len(locs) |-> IF locs[k].id = id THEN [locs[k] EXCEPT !.name = name]
                            ELSE locs[k]]

\* locations.map((loc) => loc.id === id ? { ...loc, address } : loc)
WithAddress(locs, id, address) ==
    [k \in 1..Len(locs) |-> IF locs[k].id = id THEN [locs[k] EXCEPT !.address = address]
                            ELSE locs[k]]

\* locations.map((loc) => loc.id === id ? { ...loc, coords, address: displayName } : loc)
WithCoords(locs, id, coords, displayName) ==
    [k \in 1..Len(locs) |->
        IF locs[k].id = id
        THEN [locs[k] EXCEPT !.coords = coords, !.address = displayName]
        ELSE locs[k]]

\* updateLocationName, lines 72-76, from the name field
updateLocationName(id, name) ==
    /\ page = "friends"
    /\ id \in Ids(locations)
    /\ locations' = WithName(locations, id, name)
    /\ UNCHANGED <<formVars, yourLocation, buyerLocation, clock, placeVars, saveVars,
                   routeVars, lookups, toast, hookVars, geoVars>>

\* onChange of an AddressInput, from its text field (disabled while it is busy)
typeAddress(input, text) ==
    /\ page \in Pages
    /\ input \in Inputs
    /\ ~Busy(input)
    /\ IF page = "friends"
       THEN /\ locations' = WithAddress(locations, input, text)
            /\ UNCHANGED <<yourLocation, buyerLocation>>
       ELSE IF input = "your"
       THEN /\ yourLocation' = [yourLocation EXCEPT !.address = text]
            /\ UNCHANGED <<locations, buyerLocation>>
       ELSE /\ buyerLocation' = [buyerLocation EXCEPT !.address = text]
            /\ UNCHANGED <<locations, yourLocation>>
    /\ UNCHANGED <<formVars, clock, placeVars, saveVars, routeVars, lookups, toast,
                   hookVars, geoVars>>

\* an address lookup in flight: the input it belongs to, what it is, the value
\* it was started with, and the locations of the render whose handlers it holds
Lookup(input, kind, value) ==
    [input |-> input, kind |-> kind, value |-> value, mounted |-> TRUE,
     locations |-> IF page = "friends" THEN locations ELSE <<>>]

\* handleSearch, lines 30-36: up to the awaited geocode(value)
handleSearch(input) ==
    /\ page \in Pages
    /\ input \in Inputs
    /\ ~Busy(input)
    /\ IF Trim(Value(input)) = <<>>
       THEN /\ toast' = "Please enter an address"
            /\ UNCHANGED lookups
       ELSE /\ Cardinality(lookups) < MaxLookups
            /\ lookups' = lookups \cup {Lookup(input, "search", Value(input))}
            /\ UNCHANGED toast
    /\ UNCHANGED <<formVars, locationVars, placeVars, saveVars, routeVars, hookVars,
                   geoVars>>

\* one callback of the Marketplace page applied to a location cell:
\* setYourLocation({ address: displayName, coords }) replaces the cell,
\* setYourLocation(prev => ({ ...prev, address })) updates what it holds
AppliedTo(cell, callback, coords, displayName) ==
    IF callback = "onLocationFound" THEN [address |-> displayName, coords |-> coords]
    ELSE [cell EXCEPT !.address = displayName]

RECURSIVE QueuedOn(_, _, _, _)
\* the cell after the queued updates of one handler, in order
QueuedOn(cell, order, coords, displayName) ==
    IF order = <<>> THEN cell
    ELSE QueuedOn(AppliedTo(cell, Head(order), coords, displayName), Tail(order),
                  coords, displayName)

\* one callback of the Friends page: setLocations(locations.map(...)) with the
\* locations of the render the handler was made in
Written(locs, input, callback, coords, displayName) ==
    IF callback = "onLocationFound" THEN WithCoords(locs, input, coords, displayName)
    ELSE WithAddress(locs, input, displayName)

\* onLocationFound(coords, displayName) and onChange(displayName), in the order
\* given, with the handlers of the render the lookup was started in
Callbacks(l, order, coords, displayName) ==
    IF page = "friends"
    THEN /\ locations' =
                LastWrite([k \in 1..Len(order) |->
                              Written(l.locations, l.input, order[k], coords, displayName)])
         /\ lookups' = Remounted(lookups \ {l}, locations')
         /\ UNCHANGED <<yourLocation, buyerLocation>>
    ELSE IF l.input = "your"
    THEN /\ yourLocation' = QueuedOn(yourLocation, order, coords, displayName)
         /\ lookups' = lookups \ {l}
         /\ UNCHANGED <<locations, buyerLocation>>
    ELSE /\ buyerLocation' = QueuedOn(buyerLocation, order, coords, displayName)
         /\ lookups' = lookups \ {l}
         /\ UNCHANGED <<locations, yourLocation>>

\* handleSearch, lines 36-43: geocode(value) resolved
geocodeResolves(l, result) ==
    /\ page \in Pages
    /\ l \in lookups
    /\ l.kind = "search"
    /\ IF result # nullObject
       THEN /\ Callbacks(l, <<"onLocationFound", "onChange">>,
                         [lat |-> result.lat, lng |-> result.lng], result.displayName)
            /\ toast' = "Address found!"
       ELSE /\ toast' = "Could not find that address. Try being more specific."
            /\ lookups' = lookups \ {l}
            /\ UNCHANGED <<locations, yourLocation, buyerLocation>>
    /\ UNCHANGED <<formVars, clock, placeVars, saveVars, routeVars, hookVars, geoVars>>

\* handleGpsLocation, lines 46-56
handleGpsLocation(input, supported) ==
    /\ page \in Pages
    /\ input \in Inputs
    /\ showGpsButton(input)
    /\ ~Busy(input)
    /\ IF ~supported
       THEN /\ toast' = "Geolocation is not supported by your browser"
            /\ UNCHANGED lookups
       ELSE /\ Cardinality(lookups) < MaxLookups
            /\ lookups' = lookups \cup {Lookup(input, "gps", Value(input))}
            /\ toast' = "Getting your location..."
    /\ UNCHANGED <<formVars, locationVars, placeVars, saveVars, routeVars, hookVars,
                   geoVars>>

\* the success callback of getCurrentPosition, lines 57-78
positionFound(l, coords, displayName) ==
    /\ page \in Pages
    /\ l \in lookups
    /\ l.kind = "gps"
    /\ Callbacks(l, <<"onChange", "onLocationFound">>, coords, displayName)
    /\ toast' = "Location found!"
    /\ UNCHANGED <<formVars, clock, placeVars, saveVars, routeVars, hookVars, geoVars>>

\* the error callback of getCurrentPosition, lines 80-83
positionFailed(l) ==
    /\ page \in Pages
    /\ l \in lookups
    /\ l.kind = "gps"
    /\ lookups' = lookups \ {l}
    /\ toast' = "Unable to get your location"
    /\ UNCHANGED <<formVars, locationVars, placeVars, saveVars, routeVars, hookVars,
                   geoVars>>

-----------------------------------------------------------------------------
(* saveMeetup: FriendsMeetup.tsx 142-198, MarketplaceMeetup.tsx 101-140, and *)
(* the insert policies of the meetups and meetup_participants tables       *)

\* `Meeting at ${name}${address ? ` - ${address}` : ''}` and its Marketplace twin
Description(place) ==
    (IF page = "friends" THEN "Meeting at " ELSE "Marketplace exchange at ")
        \o place.name
        \o (IF place.address # undefinedStr /\ TruthyStr(place.address)
            THEN " - " \o place.address ELSE "")

\* the object handed to supabase.from("meetups").insert(...)
MeetupRow(creator, text, place) ==
    [creator_id         |-> creator.id,
     title              |-> Trim(text),
     description        |-> Description(place),
     meetup_type        |-> page,
     meeting_point_lat  |-> place.lat,
     meeting_point_lng  |-> place.lng,
     meeting_point_name |-> place.name,
     status             |-> "pending"]

\* the object handed to supabase.from("meetup_participants").insert(...)
ParticipantRow(meetupId, userId, coords) ==
    [meetup_id |-> meetupId, user_id |-> userId, location_lat |-> coords.lat,
     location_lng |-> coords.lng, status |-> "accepted"]

\* "Users can create meetups": WITH CHECK (auth.uid() = creator_id)
MayCreateMeetup(uid, row) == uid = row.creator_id

\* "Meetup creators can add participants"
MayAddParticipant(uid, row) ==
    \/ \E k \in 1..Len(meetups) : meetups[k].id = row.meetup_id /\ meetups[k].creator_id = uid
    \/ uid = row.user_id

TitleMissingMessage ==
    IF page = "friends" THEN "Please enter a meetup title"
    ELSE "Please enter what you're selling/buying"

SavedMessage ==
    IF page = "friends" THEN "Meetup created! Share the details with your friends."
    ELSE "Meetup saved! Share the details with the other party."

\* !user
NotSignedIn(u) == u = nullObject

\* a guard that forgets to trim
TitleMissingUntrimmed(text) == text = <<>>

\* !title.trim()
TitleMissing(text) == Trim(text) = <<>>

\* what an index outside an array reads
undefinedObject == [undefined |-> TRUE]

\* locations[0]
First(locs) == IF Len(locs) = 0 THEN undefinedObject ELSE locs[1]

\* saveMeetup up to the awaited insert; the Save button is disabled while
\* isSaving.  The handler keeps the locations of the render it was made in.
saveMeetup ==
    /\ page \in Pages
    /\ ~isSaving
    /\ IF NotSignedIn(user) THEN Refuse("Please sign in to save meetups")
       ELSE IF TitleMissing(title) THEN Refuse(TitleMissingMessage)
       ELSE IF selectedPlace = nullObject THEN Refuse("Please select a meeting spot")
       ELSE /\ isSaving' = TRUE
            /\ save' = [pc |-> "meetups", row |-> MeetupRow(user, title, selectedPlace),
                        yourLocation |-> First(locations)]
            /\ UNCHANGED <<formVars, locationVars, placeVars, meetups, participants,
                           routeVars, lookups, toast, hookVars, geoVars>>

\* toast.success(...); navigate("/dashboard"); finally setIsSaving(false)
Saved ==
    /\ toast' = SavedMessage
    /\ page' = "dashboard"
    /\ isSaving' = FALSE
    /\ save' = IdleSave

\* catch: toast.error("Failed to save meetup"); finally setIsSaving(false)
SaveFailed ==
    /\ toast' = "Failed to save meetup"
    /\ isSaving' = FALSE
    /\ save' = IdleSave
    /\ UNCHANGED page

\* the awaited insert into meetups settles.  On the Friends page
\* yourLocation.coords is read next, which throws when locations[0] is
\* undefined.
meetupInsertSettles(stored) ==
    /\ page \in Pages
    /\ save.pc = "meetups"
    /\ IF stored /\ user # nullObject /\ MayCreateMeetup(user.id, save.row)
       THEN /\ meetups' = Append(meetups, save.row @@ [id |-> Len(meetups) + 1])
            /\ IF page = "marketplace" THEN Saved
               ELSE IF save.yourLocation = undefinedObject THEN SaveFailed
               ELSE IF save.yourLocation.coords # nullObject
               THEN /\ save' = [save EXCEPT !.pc = "meetup_participants",
                                            !.row = ParticipantRow(Len(meetups) + 1, user.id,
                                                                   save.yourLocation.coords)]
                    /\ UNCHANGED <<page, isSaving, toast>>
               ELSE Saved
       ELSE /\ SaveFailed
            /\ UNCHANGED meetups
    /\ UNCHANGED <<user, formVars, locationVars, placeVars, participants, lookups,
                   hookVars, geoVars>>

\* the awaited insert into meetup_participants settles; its result is not read
participantInsertSettles(stored) ==
    /\ page \in Pages
    /\ save.pc = "meetup_participants"
    /\ participants' = IF stored /\ MayAddParticipant(user.id, save.row)
                       THEN Append(participants, save.row) ELSE participants
    /\ Saved
    /\ UNCHANGED <<user, formVars, locationVars, placeVars, meetups, lookups, hookVars,
                   geoVars>>

-----------------------------------------------------------------------------
(* InterestsMeetup.tsx, lines 42-182, and the table public.user_interests   *)

UpperCase == <<"A", "B", "C", "D", "E", "F", "G", "H", "I", "J", "K", "L", "M",
               "N", "O", "P", "Q", "R", "S", "T", "U", "V", "W", "X", "Y", "Z">>

LowerCase == <<"a", "b", "c", "d", "e", "f", "g", "h", "i", "j", "k", "l", "m",
               "n", "o", "p", "q", "r", "s", "t", "u", "v", "w", "x", "y", "z">>

\* toLowerCase of one character
LowerChar(c) ==
    IF \E k \in 1..Len(UpperCase) : UpperCase[k] = c
    THEN LowerCase[CHOOSE k \in 1..Len(UpperCase) : UpperCase[k] = c]
    ELSE c

\* String.prototype.toLowerCase
toLowerCase(text) == [k \in 1..Len(text) |-> LowerChar(text[k])]

\* const [selectedCategory, setSelectedCategory] = useState("other")
selectedCategory == "other"

\* the requests of the Interests page that may be in flight together
MaxRequests == 2

\* the rows the Interests page inserts
MaxInserts == 2

\* a request a handler has sent: what it asks for, the myInterests of the
\* render the handler was made in, and the { data, error } it is answered with
Request(op, arg) ==
    [op |-> op, pc |-> "sent", arg |-> arg, myInterests |-> myInterests,
     error |-> FALSE, data |-> <<>>]

\* the request, answered
Answered(request, failed, data) ==
    [request EXCEPT !.pc = "served", !.error = failed, !.data = data]

\* a sequence without its k-th entry
RemoveAt(seq, k) == SubSeq(seq, 1, k - 1) \o SubSeq(seq, k + 1, Len(seq))

\* the requests of one kind that have not settled
InFlightRequests(op) == {k \in 1..Len(requests) : requests[k].op = op}

\* what a step of the Interests page leaves alone
outsideInterests ==
    <<hookVars, geoVars, geocodeVars, formVars, locationVars, placeVars, saveVars,
      routeVars, lookups>>

\* .from("user_interests").select("*").eq("user_id", user.id)
InterestsOf(userId) == SelectSeq(user_interests, LAMBDA row : row.user_id = userId)

\* useEffect, lines 51-55, and fetchMyInterests up to its await
fetchMyInterests ==
    IF NotSignedIn(user) THEN <<>> ELSE <<Request("fetchMyInterests", user.id)>>

\* the store answers the select of fetchMyInterests
fetchServed(k, ok) ==
    /\ page = "interests"
    /\ k \in InFlightRequests("fetchMyInterests")
    /\ requests[k].pc = "sent"
    /\ requests' = [requests EXCEPT ![k] =
           Answered(@, ~ok, IF ok THEN InterestsOf(requests[k].arg) ELSE <<>>)]
    /\ UNCHANGED <<myInterests, newInterest, matchedUsers, interestsLoading, isSearching,
                   user_interests, uuids, toast, outsideInterests>>

\* fetchMyInterests behind its await, lines 65-70
fetchSettles(k) ==
    /\ page = "interests"
    /\ k \in InFlightRequests("fetchMyInterests")
    /\ requests[k].pc = "served"
    /\ myInterests' = IF requests[k].error THEN myInterests ELSE requests[k].data
    /\ requests' = RemoveAt(requests, k)
    /\ UNCHANGED <<newInterest, matchedUsers, interestsLoading, isSearching,
                   user_interests, uuids, toast, outsideInterests>>

\* onChange={(e) => setNewInterest(e.target.value)}
setNewInterest(text) ==
    /\ page = "interests"
    /\ newInterest' = text
    /\ UNCHANGED <<myInterests, matchedUsers, interestsLoading, isSearching,
                   user_interests, uuids, requests, toast, outsideInterests>>

\* a handler of the Interests page returns after a toast
InterestRefused(message) ==
    /\ toast' = message
    /\ UNCHANGED <<interestVars, outsideInterests>>

\* a test that compares the names as they were typed
NameTakenExactly(list, name) ==
    \E k \in 1..Len(list) : list[k].interest_name = name

\* myInterests.some((i) => i.interest_name.toLowerCase() === interestName)
NameTaken(list, name) ==
    \E k \in 1..Len(list) : toLowerCase(list[k].interest_name) = name

\* the object handed to supabase.from("user_interests").insert(...)
InterestRow(userId, name) ==
    [user_id |-> userId, interest_name |-> name, category |-> selectedCategory]

\* addInterest up to its await, lines 73-101.  The Enter key of the input
\* calls it whether the button is disabled or not.
addInterest ==
    /\ page = "interests"
    /\ IF NotSignedIn(user) THEN InterestRefused("Please sign in")
       ELSE IF Trim(newInterest) = <<>> THEN InterestRefused("Please enter an interest")
       ELSE IF NameTaken(myInterests, toLowerCase(Trim(newInterest)))
       THEN InterestRefused("You already have this interest")
       ELSE /\ Len(requests) < MaxRequests
            /\ uuids + Cardinality(InFlightRequests("addInterest")) < MaxInserts
            /\ interestsLoading' = TRUE
            /\ requests' = Append(requests,
                   Request("addInterest", InterestRow(user.id, Trim(newInterest))))
            /\ UNCHANGED <<myInterests, newInterest, matchedUsers, isSearching,
                           user_interests, uuids, toast, outsideInterests>>

\* "Users can manage their own interests": auth.uid() = user_id
MayManageInterest(uid, row) == uid = row.user_id

\* UNIQUE(user_id, interest_name)
UniqueViolation(rows, new) ==
    \E k \in 1..Len(rows) :
        rows[k].user_id = new.user_id /\ rows[k].interest_name = new.interest_name

\* the store answers the insert of addInterest: .insert(...).select().single()
insertServed(k, ok) ==
    /\ page = "interests"
    /\ k \in InFlightRequests("addInterest")
    /\ requests[k].pc = "sent"
    /\ LET row == requests[k].arg @@ [id |-> ToString(uuids + 1)]
           stored == /\ ok
                     /\ MayManageInterest(user.id, requests[k].arg)
                     /\ ~UniqueViolation(user_interests, requests[k].arg)
       IN  /\ user_interests' = IF stored THEN Append(user_interests, row)
                                ELSE user_interests
           /\ uuids' = IF stored THEN uuids + 1 ELSE uuids
           /\ requests' = [requests EXCEPT ![k] =
                  Answered(@, ~stored, IF stored THEN row ELSE nullObject)]
    /\ UNCHANGED <<myInterests, newInterest, matchedUsers, interestsLoading, isSearching,
                   toast, outsideInterests>>

\* addInterest behind its await, lines 103-112
addSettles(k) ==
    /\ page = "interests"
    /\ k \in InFlightRequests("addInterest")
    /\ requests[k].pc = "served"
    /\ IF requests[k].error
       THEN /\ toast' = "Failed to add interest"
            /\ UNCHANGED <<myInterests, newInterest>>
       ELSE /\ myInterests' = Append(requests[k].myInterests, requests[k].data)
            /\ newInterest' = <<>>
            /\ toast' = "Interest added!"
    /\ interestsLoading' = FALSE
    /\ requests' = RemoveAt(requests, k)
    /\ UNCHANGED <<matchedUsers, isSearching, user_interests, uuids, outsideInterests>>

\* removeInterest up to its await, lines 115-119
removeInterest(id) ==
    /\ page = "interests"
    /\ Len(requests) < MaxRequests
    /\ requests' = Append(requests, Request("removeInterest", id))
    /\ UNCHANGED <<myInterests, newInterest, matchedUsers, interestsLoading, isSearching,
                   user_interests, uuids, toast, outsideInterests>>

\* the store answers the delete of removeInterest: .delete().eq("id", id), of
\* the rows the policy lets the user manage
deleteServed(k, ok) ==
    /\ page = "interests"
    /\ k \in InFlightRequests("removeInterest")
    /\ requests[k].pc = "sent"
    /\ user_interests' =
           IF ok
           THEN SelectSeq(user_interests,
                          LAMBDA row : ~(row.id = requests[k].arg
                                         /\ MayManageInterest(user.id, row)))
           ELSE user_interests
    /\ requests' = [requests EXCEPT ![k] = Answered(@, ~ok, <<>>)]
    /\ UNCHANGED <<myInterests, newInterest, matchedUsers, interestsLoading, isSearching,
                   uuids, toast, outsideInterests>>

\* removeInterest behind its await, lines 121-127
removeSettles(k) ==
    /\ page = "interests"
    /\ k \in InFlightRequests("removeInterest")
    /\ requests[k].pc = "served"
    /\ IF requests[k].error
       THEN /\ toast' = "Failed to remove interest"
            /\ UNCHANGED myInterests
       ELSE /\ myInterests' = SelectSeq(requests[k].myInterests,
                                        LAMBDA i : i.id # requests[k].arg)
            /\ toast' = "Interest removed"
    /\ requests' = RemoveAt(requests, k)
    /\ UNCHANGED <<newInterest, matchedUsers, interestsLoading, isSearching,
                   user_interests, uuids, outsideInterests>>

\* disabled={isSearching || myInterests.length === 0}
FindMatchesDisabled == isSearching \/ Len(myInterests) = 0

\* findMatches up to its first await, lines 130-147
findMatches ==
    /\ page = "interests"
    /\ ~FindMatchesDisabled
    /\ IF NotSignedIn(user) THEN UNCHANGED <<interestVars, toast, outsideInterests>>
       ELSE IF Len(myInterests) = 0
       THEN InterestRefused("Add some interests first to find matches")
       ELSE /\ Len(requests) < MaxRequests
            /\ isSearching' = TRUE
            /\ requests' = Append(requests, Request("findMatches", user.id))
            /\ UNCHANGED <<myInterests, newInterest, matchedUsers, interestsLoading,
                           user_interests, uuids, toast, outsideInterests>>

\* .select("user_id, interest_name").neq("user_id", user.id)
InterestsOfOthers(userId) ==
    LET others == SelectSeq(user_interests, LAMBDA row : row.user_id # userId)
    IN  [k \in 1..Len(others) |->
            [user_id |-> others[k].user_id, interest_name |-> others[k].interest_name]]

\* the store answers the first select of findMatches
matchingServed(k, ok) ==
    /\ page = "interests"
    /\ k \in InFlightRequests("findMatches")
    /\ requests[k].pc = "sent"
    /\ requests' = [requests EXCEPT ![k] =
           Answered(@, ~ok, IF ok THEN InterestsOfOthers(requests[k].arg) ELSE <<>>)]
    /\ UNCHANGED <<myInterests, newInterest, matchedUsers, interestsLoading, isSearching,
                   user_interests, uuids, toast, outsideInterests>>

\* myInterests.map((i) => i.interest_name.toLowerCase())
myInterestNames(list) == [k \in 1..Len(list) |-> toLowerCase(list[k].interest_name)]

\* a test that compares the names as they are stored
IncludesExactly(names, interest) ==
    \E k \in 1..Len(names) : names[k] = interest.interest_name

\* myInterestNames.includes(interest.interest_name.toLowerCase())
Includes(names, interest) ==
    \E k \in 1..Len(names) : names[k] = toLowerCase(interest.interest_name)

RECURSIVE UserMatches(_, _)
\* lines 152-161: userMatches after the forEach, its keys in the order they
\* were created
UserMatches(names, rows) ==
    IF rows = <<>> THEN <<>>
    ELSE LET before == UserMatches(names, SubSeq(rows, 1, Len(rows) - 1))
             interest == rows[Len(rows)]
         IN  IF ~Includes(names, interest) THEN before
             ELSE IF \E k \in 1..Len(before) : before[k].user_id = interest.user_id
             THEN [k \in 1..Len(before) |->
                      IF before[k].user_id = interest.user_id
                      THEN [before[k] EXCEPT
                                !.interests = Append(@, interest.interest_name)]
                      ELSE before[k]]
             ELSE Append(before, [user_id |-> interest.user_id,
                                  interests |-> <<interest.interest_name>>])

\* setIsSearching(false), and the request is over
SearchOver(k) ==
    /\ isSearching' = FALSE
    /\ requests' = RemoveAt(requests, k)
    /\ UNCHANGED <<myInterests, newInterest, interestsLoading, user_interests, uuids,
                   outsideInterests>>

\* findMatches behind its first await, lines 149-172, up to the select of the
\* profiles
matchingSettles(k) ==
    /\ page = "interests"
    /\ k \in InFlightRequests("findMatches")
    /\ requests[k].pc = "served"
    /\ IF requests[k].error
       THEN /\ toast' = "Failed to search for matches"
            /\ UNCHANGED matchedUsers
            /\ SearchOver(k)
       ELSE LET userMatches ==
                    UserMatches(myInterestNames(requests[k].myInterests), requests[k].data)
            IN  IF Len(userMatches) = 0
                THEN /\ toast' = "No matches found yet. Invite your friends to join!"
                     /\ matchedUsers' = <<>>
                     /\ SearchOver(k)
                ELSE /\ requests' = [requests EXCEPT ![k] =
                            [@ EXCEPT !.pc = "profiles", !.data = userMatches]]
                     /\ UNCHANGED <<myInterests, newInterest, matchedUsers,
                                    interestsLoading, isSearching, user_interests, uuids,
                                    toast, outsideInterests>>

\* the rows of public.profiles
profiles ==
    << [user_id |-> "user-1", full_name |-> "Ann", avatar_url |-> ""],
       [user_id |-> "user-2", full_name |-> "Bea", avatar_url |-> ""] >>

\* profiles?.find((p) => p.user_id === userId) || null
ProfileOf(found, userId) ==
    IF \E k \in 1..Len(found) : found[k].user_id = userId
    THEN found[CHOOSE k \in 1..Len(found) :
                   /\ found[k].user_id = userId
                   /\ \A j \in 1..(k - 1) : found[j].user_id # userId]
    ELSE nullObject

RECURSIVE InsertMatch(_, _)
\* m put behind every entry that has at least as many interests
InsertMatch(sorted, m) ==
    IF sorted = <<>> THEN <<m>>
    ELSE IF Len(m.interests) - Len(Head(sorted).interests) <= 0
         THEN <<Head(sorted)>> \o InsertMatch(Tail(sorted), m)
         ELSE <<m>> \o sorted

RECURSIVE SortByInterests(_)
\* matches.sort((a, b) => b.interests.length - a.interests.length)
SortByInterests(seq) ==
    IF seq = <<>> THEN <<>>
    ELSE InsertMatch(SortByInterests(SubSeq(seq, 1, Len(seq) - 1)), seq[Len(seq)])

\* `Found ${matches.length} people with similar interests!`
MatchesMessage(n) == "Found " \o ToString(n) \o " people with similar interests!"

\* the select of the profiles settles, lines 172-194; its error is not read,
\* and without data every profile is null
profilesSettle(k, ok) ==
    /\ page = "interests"
    /\ k \in InFlightRequests("findMatches")
    /\ requests[k].pc = "profiles"
    /\ LET userMatches == requests[k].data
           found == IF ok
                    THEN SelectSeq(profiles, LAMBDA p :
                             \E j \in 1..Len(userMatches) : userMatches[j].user_id = p.user_id)
                    ELSE <<>>
           matches == [j \in 1..Len(userMatches) |->
                          [user_id |-> userMatches[j].user_id,
                           profile |-> ProfileOf(found, userMatches[j].user_id),
                           interests |-> userMatches[j].interests]]
       IN  /\ matchedUsers' = SortByInterests(matches)
           /\ toast' = MatchesMessage(Len(matches))
    /\ SearchOver(k)

-----------------------------------------------------------------------------
(* What the pages are given *)

\* useAuth(): nobody, or a signed-in user
Users == {nullObject, [id |-> "user-1"]}

Titles == {<<" ">>, <<" ", "T", "e", "a", " ">>}

TypedTypes == {"mall"}

TypedNames == {"Ann"}

TypedAddresses == {<<"R", "o", "m", "e">>}

\* what Nominatim answers a search with
RomaEntry ==
    [lat |-> <<"3", "0">>, lon |-> <<"3", "0">>, display_name |-> <<"R", "o", "m", "a">>]

\* what geocode resolves to on a page
GeocodeResults == {nullObject, GeocodingResult(RomaEntry)}

\* the position getCurrentPosition reports
GpsFix == Point(60, 0)

\* the positions the device reports: the fix, and, after it moved, the place
\* the address search finds
GpsFixes == {GpsFix, Point(30, 30)}

\* data.display_name of the reverse lookup
GpsNames == {<<"O", "s", "l", "o">>}

\* what the Overpass API answers a page's search with
PageResponses ==
    {HttpError, HttpOk(BodyOf(ElementsOf(2, 1, 1)))}

\* how the request of a page's search fails
PageFetchErrors == {[isError |-> TRUE, message |-> "Failed to fetch"]}

-----------------------------------------------------------------------------
(* The specifications *)

\* no function has been applied yet
NoReturn == [fn |-> "", args |-> <<>>, value |-> <<>>]

\* the hook after its first render
InitHook ==
    /\ isLoading = FALSE
    /\ error = null
    /\ calls = [i \in Calls |-> IdleCall]

InitGeoIdle ==
    /\ points = <<>>
    /\ returned = NoReturn

\* useGeocoding after its first render
InitGeocode ==
    /\ geocoding = [isLoading |-> FALSE, error |-> null]
    /\ geocodes = [i \in Geocodes |-> IdleGeocode]

\* the cells of a page after its first render
InitCells ==
    /\ title = <<>>
    /\ selectedType = "coffee"
    /\ locations = InitialLocations
    /\ yourLocation = NoLocation
    /\ buyerLocation = NoLocation
    /\ clock = [now |-> FirstClock, reads |-> 0]
    /\ places = <<>>
    /\ selectedPlace = nullObject
    /\ midpoint = nullObject
    /\ isSaving = FALSE
    /\ save = IdleSave
    /\ meetups = <<>>
    /\ participants = <<>>
    /\ lookups = {}
    /\ toast = ""

\* the Interests page is not mounted, and nobody has an interest
InitNoInterests ==
    /\ myInterests = <<>>
    /\ newInterest = <<>>
    /\ matchedUsers = <<>>
    /\ interestsLoading = FALSE
    /\ isSearching = FALSE
    /\ user_interests = <<>>
    /\ uuids = 0
    /\ requests = <<>>

\* neither page is mounted
InitUnmounted ==
    /\ page = "dashboard"
    /\ user = nullObject
    /\ InitCells
    /\ InitNoInterests

Init ==
    /\ InitHook
    /\ InitGeoIdle
    /\ InitGeocode
    /\ InitUnmounted

\* what a step of usePlacesSearch leaves alone
outsideHook == <<geoVars, geocodeVars, pageVars, interestVars>>

\* the hook with concurrent invocations
Next ==
    \E i \in Calls :
        \/ \E type \in {"coffee", "park"} :
               searchPlaces(i, 30, 30, type, 10000) /\ UNCHANGED outsideHook
        \/ \E err \in FetchErrors : fetchRejects(i, err) /\ UNCHANGED outsideHook
        \/ \E response \in SmallResponses :
               fetchResolves(i, response) /\ UNCHANGED outsideHook
        \/ jsonSettles(i) /\ UNCHANGED outsideHook

Spec == Init /\ [][Next]_vars

\* one invocation at a time, over every center, type, radius and response
NextPipeline ==
    \/ \E center \in Centers, type \in Types, radius \in Radii :
           searchPlaces(1, center.lat, center.lng, type, radius) /\ UNCHANGED outsideHook
    \/ \E err \in FetchErrors : fetchRejects(1, err) /\ UNCHANGED outsideHook
    \/ \E response \in Responses : fetchResolves(1, response) /\ UNCHANGED outsideHook
    \/ jsonSettles(1) /\ UNCHANGED outsideHook

SpecPipeline == Init /\ [][NextPipeline]_vars

\* what the Overpass API answers when only the path of the invocation matters:
\* a non-success status, a body that is not JSON, JSON without elements, no
\* element, elements without a name, and two named places
SettlingResponses == SmallResponses \cup {HttpOk(NotJson)}

\* one invocation at a time, as the pages call the hook
NextSettles ==
    \/ \E center \in Centers, type \in Types, radius \in Radii :
           searchPlaces(1, center.lat, center.lng, type, radius) /\ UNCHANGED outsideHook
    \/ \E err \in FetchErrors : fetchRejects(1, err) /\ UNCHANGED outsideHook
    \/ \E response \in SettlingResponses :
           fetchResolves(1, response) /\ UNCHANGED outsideHook
    \/ jsonSettles(1) /\ UNCHANGED outsideHook

\* the awaited fetch of the invocation settles
FetchSettles == calls[1].pc = "fetch" /\ NextSettles

\* the awaited response.json() of the invocation settles
JsonSettles == calls[1].pc = "json" /\ NextSettles

\* every request settles in the end: the promise of a fetch and of
\* response.json() is settled by the browser, which a pending one cannot
\* prevent.  The second condition is the weak fairness of JsonSettles, written
\* out with calls[1].pc = "json" for ENABLED <<JsonSettles>>_vars.
SpecSettles ==
    /\ Init
    /\ [][NextSettles]_vars
    /\ WF_vars(FetchSettles)
    /\ []<>(calls[1].pc # "json") \/ []<><<JsonSettles>>_vars

\* what a step of useGeocoding leaves alone
outsideGeocode == <<hookVars, geoVars, pageVars, interestVars>>

\* geocode on its own, with concurrent invocations
NextGeocode ==
    \E i \in Geocodes :
        \/ \E address \in Addresses : geocode(i, address) /\ UNCHANGED outsideGeocode
        \/ \E err \in FetchErrors : geocodeFetchRejects(i, err) /\ UNCHANGED outsideGeocode
        \/ \E response \in GeocodeResponses :
               geocodeFetchResolves(i, response) /\ UNCHANGED outsideGeocode
        \/ geocodeJsonSettles(i) /\ UNCHANGED outsideGeocode

SpecGeocode == Init /\ [][NextGeocode]_vars

\* what a step of the Friends or the Marketplace page leaves alone
outsidePages == <<geocodeVars, interestVars>>

\* one of the two pages is opened, by a visitor or by a signed-in user
InitPages ==
    /\ InitHook
    /\ InitGeoIdle
    /\ InitGeocode
    /\ page \in Pages
    /\ user \in Users
    /\ InitCells
    /\ InitNoInterests

\* the way of both pages from their locations to a saved meetup.  On the
\* Friends page the locations are added, removed and confirmed by GPS; its
\* names, typed addresses and address searches are left to NextLocations.
NextPages ==
    \/ \E text \in Titles : setTitle(text) /\ UNCHANGED outsidePages
    \/ \E type \in TypedTypes : setSelectedType(type) /\ UNCHANGED outsidePages
    \/ addLocation /\ UNCHANGED outsidePages
    \/ \E id \in Ids(locations) : removeLocation(id) /\ UNCHANGED outsidePages
    \/ \E input \in MarketplaceInputs, text \in TypedAddresses :
           typeAddress(input, text) /\ UNCHANGED outsidePages
    \/ \E input \in MarketplaceInputs : handleSearch(input) /\ UNCHANGED outsidePages
    \/ \E l \in lookups, result \in GeocodeResults :
           geocodeResolves(l, result) /\ UNCHANGED outsidePages
    \/ \E input \in Inputs, supported \in BOOLEAN :
           handleGpsLocation(input, supported) /\ UNCHANGED outsidePages
    \/ \E l \in lookups, fix \in GpsFixes, name \in GpsNames :
           positionFound(l, fix, name) /\ UNCHANGED outsidePages
    \/ \E l \in lookups : positionFailed(l) /\ UNCHANGED outsidePages
    \/ FriendsHandleFindPlaces /\ UNCHANGED outsidePages
    \/ MarketplaceHandleFindPlaces /\ UNCHANGED outsidePages
    \/ \E i \in Calls, err \in PageFetchErrors :
           searchRejects(i, err) /\ UNCHANGED outsidePages
    \/ \E i \in Calls, response \in PageResponses :
           searchResponds(i, response) /\ UNCHANGED outsidePages
    \/ \E i \in Calls : searchSettles(i) /\ UNCHANGED outsidePages
    \/ \E k \in 1..Len(places) : handlePlaceSelect(places[k]) /\ UNCHANGED outsidePages
    \/ saveMeetup /\ UNCHANGED outsidePages
    \/ \E stored \in BOOLEAN : meetupInsertSettles(stored) /\ UNCHANGED outsidePages
    \/ \E stored \in BOOLEAN : participantInsertSettles(stored) /\ UNCHANGED outsidePages

SpecPages == InitPages /\ [][NextPages]_vars

\* the Friends page, opened by a signed-in user, with its two locations
\* edited: names, typed addresses, address searches and GPS fixes
InitLocations ==
    /\ InitHook
    /\ InitGeoIdle
    /\ InitGeocode
    /\ page = "friends"
    /\ user = [id |-> "user-1"]
    /\ InitCells
    /\ InitNoInterests

NextLocations ==
    \/ \E id \in Ids(locations), name \in TypedNames :
           updateLocationName(id, name) /\ UNCHANGED outsidePages
    \/ \E input \in Inputs, text \in TypedAddresses :
           typeAddress(input, text) /\ UNCHANGED outsidePages
    \/ \E input \in Inputs : handleSearch(input) /\ UNCHANGED outsidePages
    \/ \E l \in lookups, result \in GeocodeResults :
           geocodeResolves(l, result) /\ UNCHANGED outsidePages
    \/ \E input \in Inputs, supported \in BOOLEAN :
           handleGpsLocation(input, supported) /\ UNCHANGED outsidePages
    \/ \E l \in lookups, fix \in GpsFixes, name \in GpsNames :
           positionFound(l, fix, name) /\ UNCHANGED outsidePages
    \/ \E l \in lookups : positionFailed(l) /\ UNCHANGED outsidePages
    \/ FriendsHandleFindPlaces /\ UNCHANGED outsidePages

SpecLocations == InitLocations /\ [][NextLocations]_vars

\* what is typed into the input of the Interests page
TypedInterests == {<<"G", "o">>, <<"g", "o">>, <<" ">>}

\* the interests of the other users: user-3 shares one name with the typed
\* interests, user-2 two
InterestsOfTheOthers ==
    << [id |-> "a", user_id |-> "user-3", interest_name |-> <<"G", "o">>, category |-> "other"],
       [id |-> "b", user_id |-> "user-3", interest_name |-> <<"T", "e", "a">>,
        category |-> "food"],
       [id |-> "c", user_id |-> "user-2", interest_name |-> <<"G", "O">>, category |-> "other"],
       [id |-> "d", user_id |-> "user-2", interest_name |-> <<"g", "o">>, category |-> "other"] >>

\* an interest user-1 added on an earlier visit
EarlierInterest ==
    [id |-> "e", user_id |-> "user-1", interest_name |-> <<"g", "o">>, category |-> "other"]

\* the rows of user_interests when the page is opened
InitialInterests ==
    {InterestsOfTheOthers, <<EarlierInterest>> \o InterestsOfTheOthers,
     <<InterestsOfTheOthers[2]>>}

\* the Interests page is opened, by a visitor or by a signed-in user, and the
\* effect of lines 51-55 has run
InitInterests ==
    /\ InitHook
    /\ InitGeoIdle
    /\ InitGeocode
    /\ page = "interests"
    /\ user \in Users
    /\ InitCells
    /\ myInterests = <<>>
    /\ newInterest = <<>>
    /\ matchedUsers = <<>>
    /\ interestsLoading = FALSE
    /\ isSearching = FALSE
    /\ user_interests \in InitialInterests
    /\ uuids = 0
    /\ requests = fetchMyInterests

NextInterests ==
    \/ \E k \in 1..Len(requests), ok \in BOOLEAN : fetchServed(k, ok)
    \/ \E k \in 1..Len(requests) : fetchSettles(k)
    \/ \E text \in TypedInterests : setNewInterest(text)
    \/ addInterest
    \/ \E k \in 1..Len(requests), ok \in BOOLEAN : insertServed(k, ok)
    \/ \E k \in 1..Len(requests) : addSettles(k)
    \/ \E k \in 1..Len(myInterests) : removeInterest(myInterests[k].id)
    \/ \E k \in 1..Len(requests), ok \in BOOLEAN : deleteServed(k, ok)
    \/ \E k \in 1..Len(requests) : removeSettles(k)
    \/ findMatches
    \/ \E k \in 1..Len(requests), ok \in BOOLEAN : matchingServed(k, ok)
    \/ \E k \in 1..Len(requests) : matchingSettles(k)
    \/ \E k \in 1..Len(requests), ok \in BOOLEAN : profilesSettle(k, ok)

SpecInterests == InitInterests /\ [][NextInterests]_vars

-----------------------------------------------------------------------------
(* The geometry functions on their own: calculateMidpoint of both pages and *)
(* calculateDistance, applied to points of the 30-degree grid              *)

\* every point of the grid, the poles and both sides of the antimeridian included
GridPoints == {Point(30 * a, 30 * b) : a \in -3..3, b \in -6..6}

\* the points the sequences handed to calculateMidpoint are made of
MidpointPoints ==
    {Point(30, 30), Point(30, 60), Point(60, 0), Point(60, 60), Point(0, 0),
     Point(-30, 60), Point(0, 180), Point(-60, -150)}

\* the longest sequence handed to calculateMidpoint
MaxPoints == 3

PointSeqs == UNION {[1..n -> MidpointPoints] : n \in 1..MaxPoints}

GridPairs == [1..2 -> GridPoints]

InitGeo ==
    /\ InitHook
    /\ InitGeocode
    /\ InitUnmounted
    /\ points \in PointSeqs \cup GridPairs
    /\ returned = NoReturn

\* FriendsMeetup.tsx: calculateMidpoint(points)
FriendsMidpoint ==
    /\ returned' = [fn |-> "calculateMidpoint", args |-> points,
                    value |-> calculateMidpoint(points)]
    /\ UNCHANGED points

\* MarketplaceMeetup.tsx: calculateMidpoint(loc1, loc2)
MarketplaceMidpoint ==
    /\ Len(points) = 2
    /\ returned' = [fn |-> "MarketplaceCalculateMidpoint", args |-> points,
                    value |-> MarketplaceCalculateMidpoint(points[1], points[2])]
    /\ UNCHANGED points

\* calculateDistance(lat1, lng1, lat2, lng2)
Distance ==
    /\ Len(points) = 2
    /\ returned' = [fn |-> "calculateDistance", args |-> points,
                    value |-> calculateDistance(points[1].lat, points[1].lng,
                                                points[2].lat, points[2].lng)]
    /\ UNCHANGED points

\* what an application of a geometry function leaves alone
outsideGeo == <<hookVars, geocodeVars, pageVars, interestVars>>

NextGeo ==
    \/ FriendsMidpoint /\ UNCHANGED outsideGeo
    \/ MarketplaceMidpoint /\ UNCHANGED outsideGeo
    \/ Distance /\ UNCHANGED outsideGeo

SpecGeo == InitGeo /\ [][NextGeo]_vars

-----------------------------------------------------------------------------
(* Properties of searchPlaces *)

Done(i) == calls[i].pc = "done"

\* the invocation got an elements array back and ran the pipeline on it
Searched(i) ==
    /\ Done(i)
    /\ calls[i].response.ok
    /\ calls[i].response.body.parses
    /\ Has(calls[i].response.body.data, "elements")

Elements(i) == calls[i].response.body.data.elements

Result(i) == calls[i].promise.value

\* a <= b on numbers: false when either side is NaN
NumLeq(a, b) == IsNum(a) /\ IsNum(b) /\ a <= b

\* a < b on numbers: false when either side is NaN
NumLess(a, b) == IsNum(a) /\ IsNum(b) /\ a < b

\* C1: the list searchPlaces returns is sorted non-decreasing by distance:
\* p[k].distance <= p[k+1].distance for every pair of adjacent places.
ClaimC1 ==
    \A i \in Calls :
        Searched(i) =>
            \A k \in 1..(Len(Result(i)) - 1) :
                NumLeq(Result(i)[k].distance, Result(i)[k + 1].distance)

\* the GeoPoint a response element is at: its own lat/lon when it carries
\* them, else its center; undefined when it has neither
ElementLat(el) ==
    IF Has(el, "lat") /\ Has(el, "lon") THEN el.lat ELSE CenterCoord(el, "lat")

ElementLng(el) ==
    IF Has(el, "lat") /\ Has(el, "lon") THEN el.lon ELSE CenterCoord(el, "lon")

\* the great-circle distance from the search center of invocation i to el
ElementDistance(i, el) ==
    calculateDistance(calls[i].lat, calls[i].lng, ElementLat(el), ElementLng(el))

ResultIds(i) == {Result(i)[k].id : k \in 1..Len(Result(i))}

\* the response element a returned place was made from
ElementOf(i, p) ==
    CHOOSE el \in {Elements(i)[k] : k \in 1..Len(Elements(i))} : ToString(el.id) = p.id

Min(a, b) == IF a < b THEN a ELSE b

\* C2: searchPlaces returns exactly min(10, number of named elements) places,
\* and no named element that was omitted is strictly nearer to the center than
\* a returned one.
ClaimC2 ==
    \A i \in Calls :
        Searched(i) =>
            LET named == Named(Elements(i)) IN
            /\ Len(Result(i)) = Min(10, Len(named))
            /\ \A k \in 1..Len(named) :
                   ToString(named[k].id) \notin ResultIds(i) =>
                       \A j \in 1..Len(Result(i)) :
                           ~NumLess(ElementDistance(i, named[k]),
                                    ElementDistance(i, ElementOf(i, Result(i)[j])))

\* C3: every place searchPlaces returns has a non-empty name, and the response
\* element it was made from has tags, a name tag, and a name that is not empty.
TheoremC3 ==
    \A i \in Calls :
        Searched(i) =>
            \A k \in 1..Len(Result(i)) :
                LET p == Result(i)[k]
                    el == ElementOf(i, p)
                IN  /\ p.name # ""
                    /\ "tags" \in DOMAIN el
                    /\ "name" \in DOMAIN el.tags
                    /\ el.tags.name # ""

\* an unnamed element came back next to a named one, and the list is not empty
WitnessC3 ==
    \E i \in Calls :
        /\ Searched(i)
        /\ Len(Result(i)) > 0
        /\ \E k \in 1..Len(Elements(i)) : "tags" \notin DOMAIN Elements(i)[k]
        /\ \E k \in 1..Len(Elements(i)) :
               "tags" \in DOMAIN Elements(i)[k] /\ "name" \notin DOMAIN Elements(i)[k].tags
        /\ \E k \in 1..Len(Elements(i)) :
               "tags" \in DOMAIN Elements(i)[k] /\ "name" \in DOMAIN Elements(i)[k].tags
                   /\ Elements(i)[k].tags.name = ""

\* the request of invocation i failed: fetch rejected, or the status was not ok
TransportFailed(i) == Done(i) /\ ~calls[i].response.ok

\* C4: on network failure or a non-success status the caller of searchPlaces
\* gets an outcome that differs from that of a successful search that found
\* nothing (a fulfilled promise holding the empty list).
ClaimC4 ==
    \A i \in Calls : TransportFailed(i) => calls[i].promise # Fulfilled(<<>>)

\* C5: every invocation issues exactly one request; when the request fails the
\* invocation ends with a single error recorded and no second request.
TheoremC5 ==
    \A i \in Calls :
        /\ calls[i].pc # "idle" => calls[i].requests = 1
        /\ calls[i].pc \in {"fetch", "json"} => calls[i].failures = 0
        /\ TransportFailed(i) => calls[i].requests = 1 /\ calls[i].failures = 1

\* two invocations have both ended on a failed request
WitnessC5 ==
    \E i, j \in Calls :
        /\ i # j
        /\ TransportFailed(i) /\ calls[i].failures = 1
        /\ TransportFailed(j) /\ calls[j].response = HttpError

\* C6: a search whose response holds zero named elements completes normally:
\* it returns the empty list, no exception is caught, and the error cell holds
\* 'No <type> found nearby. Try a different location type.'
TheoremC6 ==
    \A i \in Calls :
        (Searched(i) /\ \A k \in 1..Len(Elements(i)) : ~HasName(Elements(i)[k])) =>
            /\ calls[i].promise = [state |-> "fulfilled", value |-> <<>>]
            /\ calls[i].failures = 0
            /\ error = "No " \o calls[i].type \o " found nearby. Try a different location type."

\* a response of several elements, none named, has been searched
WitnessC6 ==
    \E i \in Calls :
        /\ Searched(i)
        /\ Len(Elements(i)) >= 2
        /\ \A k \in 1..Len(Elements(i)) : ~HasName(Elements(i)[k])
        /\ calls[i].type = "mall"

\* C7: for every type that is not an own entry of the lookup table the query
\* is built with the default cafe filter.
ClaimC7 ==
    \A i \in Calls :
        (calls[i].pc # "idle"
            /\ calls[i].type \notin {"police", "coffee", "mall", "bank", "library",
                                     "restaurant", "fastfood"}) =>
            calls[i].query =
                Query("[\"amenity\"=\"cafe\"]", calls[i].radius, calls[i].lat, calls[i].lng)

\* C8: every returned place carries a distance that is a number >= 0, equal to
\* the great-circle distance from the search center to its own lat/lng.
ClaimC8 ==
    \A i \in Calls :
        Searched(i) =>
            \A k \in 1..Len(Result(i)) :
                LET p == Result(i)[k] IN
                /\ IsNum(p.distance)
                /\ p.distance >= 0
                /\ p.distance = calculateDistance(calls[i].lat, calls[i].lng, p.lat, p.lng)

\* C9: a returned place's lat/lng are the element's direct lat/lon whenever it
\* carries them, and the center's lat/lon only when it has no direct ones.
ClaimC9 ==
    \A i \in Calls :
        Searched(i) =>
            \A k \in 1..Len(Result(i)) :
                LET p == Result(i)[k]
                    el == ElementOf(i, p)
                IN  IF "lat" \in DOMAIN el /\ "lon" \in DOMAIN el
                    THEN p.lat = el.lat /\ p.lng = el.lon
                    ELSE "center" \in DOMAIN el =>
                             p.lat = el.center.lat /\ p.lng = el.center.lon

\* C10: while an invocation is in flight and takes no step itself, the start or
\* completion of another invocation leaves isLoading and error as they were.
ClaimC10 ==
    [][\A i \in Calls :
          (InFlight(i) /\ calls'[i] = calls[i]) =>
              (isLoading' = isLoading /\ error' = error)]_vars

\* the address fragments of an element, "" for a fragment it does not carry
Street(el) == IF "addr:street" \in DOMAIN el.tags THEN el.tags["addr:street"] ELSE ""

HouseNumber(el) ==
    IF "addr:housenumber" \in DOMAIN el.tags THEN el.tags["addr:housenumber"] ELSE ""

City(el) == IF "addr:city" \in DOMAIN el.tags THEN el.tags["addr:city"] ELSE ""

\* text with one more fragment behind it, ', ' between them when both are there
Appended(text, fragment) ==
    IF fragment = "" THEN text
    ELSE IF text = "" THEN fragment
    ELSE text \o ", " \o fragment

\* C16: a place's address is its present (non-empty) fragments among street,
\* house number and city, in that order, joined with ', ', absent ones left
\* out; it is undefined exactly when none of the three is present.
TheoremC16 ==
    \A i \in Calls :
        Searched(i) =>
            \A k \in 1..Len(Result(i)) :
                LET p == Result(i)[k]
                    el == ElementOf(i, p)
                    none == Street(el) = "" /\ HouseNumber(el) = "" /\ City(el) = ""
                IN  /\ (p.address = undefinedStr) <=> none
                    /\ ~none =>
                           p.address = Appended(Appended(Street(el), HouseNumber(el)), City(el))

\* one result holds a place with all three fragments, one with street and city
\* only, one with an empty street before number and city, and one with none
WitnessC16 ==
    \E i \in Calls :
        /\ Searched(i)
        /\ \E k \in 1..Len(Result(i)) : Result(i)[k].address = "High St, 7, Oslo"
        /\ \E k \in 1..Len(Result(i)) : Result(i)[k].address = "Main St, Quito"
        /\ \E k \in 1..Len(Result(i)) : Result(i)[k].address = "5, Rome"
        /\ \E k \in 1..Len(Result(i)) : Result(i)[k].address = undefinedStr

\* C17: a place's type is the element's amenity tag when it is present
\* (non-empty), else its shop tag when that is present, else the requested
\* category.
TheoremC17 ==
    \A i \in Calls :
        Searched(i) =>
            \A k \in 1..Len(Result(i)) :
                LET p == Result(i)[k]
                    tags == ElementOf(i, p).tags
                    amenity == "amenity" \in DOMAIN tags /\ tags.amenity # ""
                    shop == "shop" \in DOMAIN tags /\ tags.shop # ""
                IN  /\ amenity => p.type = tags.amenity
                    /\ (~amenity /\ shop) => p.type = tags.shop
                    /\ (~amenity /\ ~shop) => p.type = calls[i].type

\* one result holds a place with both tags, one with a shop tag only and one
\* with neither
WitnessC17 ==
    \E i \in Calls :
        /\ Searched(i)
        /\ calls[i].type = "park"
        /\ \E k \in 1..Len(Result(i)) :
               Result(i)[k].name = "Jade" /\ Result(i)[k].type = "cafe"
        /\ \E k \in 1..Len(Result(i)) :
               Result(i)[k].name = "Kiosk" /\ Result(i)[k].type = "kiosk"
        /\ \E k \in 1..Len(Result(i)) :
               Result(i)[k].name = "Lane" /\ Result(i)[k].type = "park"

-----------------------------------------------------------------------------
(* Properties of calculateMidpoint and calculateDistance *)

\* the orders a sequence can be put in
Orders(seq) ==
    {[i \in 1..Len(seq) |-> seq[f[i]]] :
        f \in {g \in [1..Len(seq) -> 1..Len(seq)] :
                  \A i, j \in 1..Len(seq) : i # j => g[i] # g[j]}}

\* C13: calculateMidpoint is invariant under input reordering: every
\* permutation of the sequence the Friends-page function was applied to gives
\* the midpoint it returned; for two points the Marketplace function gives the
\* same for (a, b) and (b, a), and the same as the Friends-page function.
ClaimC13 ==
    returned.fn = "calculateMidpoint" =>
        /\ \A order \in Orders(returned.args) : calculateMidpoint(order) = returned.value
        /\ Len(returned.args) = 2 =>
               /\ MarketplaceCalculateMidpoint(returned.args[1], returned.args[2])
                      = returned.value
               /\ MarketplaceCalculateMidpoint(returned.args[2], returned.args[1])
                      = returned.value

\* C15: the haversine distance is symmetric: calculateDistance from a to b
\* equals calculateDistance from b to a.
TheoremC15 ==
    returned.fn = "calculateDistance" =>
        LET a == returned.args[1]
            b == returned.args[2]
        IN  returned.value = calculateDistance(b.lat, b.lng, a.lat, a.lng)

\* a distance between two points of different latitudes and longitudes, in
\* different hemispheres, has been computed and is a positive number
WitnessC15 ==
    /\ returned.fn = "calculateDistance"
    /\ returned.args[1].lat = 60 /\ returned.args[2].lat = -30
    /\ returned.args[1].lng = -150 /\ returned.args[2].lng = 120
    /\ IsNum(returned.value) /\ returned.value > 0

-----------------------------------------------------------------------------
(* Properties of geocode *)

\* invocation i takes the step that settles its promise
GeocodeSettles(i) == geocodes[i].pc # "done" /\ geocodes'[i].pc = "done"

\* invocation i is called
GeocodeCalled(i) == geocodes[i].pc \in {"idle", "done"} /\ geocodes'[i] # geocodes[i]

\* the address holds nothing but white space
Blank(address) == \A k \in 1..Len(address) : address[k] \in {" ", "\t", "\n"}

\* what geocode may resolve to
GeocodeOutcome(value) ==
    \/ value = [null |-> TRUE]
    \/ DOMAIN value = {"lat", "lng", "displayName"}

\* C18: geocode never rejects: its promise is fulfilled with a
\* {lat, lng, displayName} result or with null, and whenever it resolves to
\* null the error cell has just been set; called with an empty or
\* white-space-only address it issues no request and leaves isLoading as it was.
TheoremC18 ==
    /\ [](\A i \in Geocodes :
             /\ geocodes[i].promise.state # "rejected"
             /\ geocodes[i].pc = "done" =>
                    /\ geocodes[i].promise.state = "fulfilled"
                    /\ GeocodeOutcome(geocodes[i].promise.value)
             /\ Blank(geocodes[i].address) => geocodes[i].requests = <<>>
             /\ (geocodes[i].pc # "idle" /\ ~Blank(geocodes[i].address)) =>
                    Len(geocodes[i].requests) = 1)
    /\ [][\A i \in Geocodes :
             /\ (GeocodeSettles(i) /\ geocodes'[i].promise.value = [null |-> TRUE]) =>
                    geocoding'.error \notin {"<null>", ""}
             /\ (GeocodeCalled(i) /\ Blank(geocodes'[i].address)) =>
                    /\ geocoding'.isLoading = geocoding.isLoading
                    /\ geocodes'[i].pc = "done"
                    /\ geocodes'[i].promise = [state |-> "fulfilled", value |-> [null |-> TRUE]]
          ]_vars

\* geocode was called with white space only while another invocation was in
\* flight: it resolved to null at once, without a request, isLoading still true
WitnessC18 ==
    \E i, j \in Geocodes :
        /\ geocodes[i].pc = "done"
        /\ geocodes[i].address = <<" ", "\t">>
        /\ geocodes[i].promise.value = [null |-> TRUE]
        /\ geocodes[j].pc = "fetch"
        /\ geocoding = [isLoading |-> TRUE, error |-> "Please enter an address"]

\* a call of removeLocation that found two locations or fewer
RemoveRefused ==
    \E id \in Ids(locations) : removeLocation(id) /\ Len(locations) <= 2

\* C20: on the Friends page the locations list has at least 2 entries in every
\* reachable state, and removeLocation on a list of 2 or fewer entries removes
\* nothing and leaves locations, places, selectedPlace and midpoint unchanged.
ClaimC20 ==
    /\ [](page = "friends" => Len(locations) >= 2)
    /\ [][RemoveRefused => UNCHANGED <<locations, places, selectedPlace, midpoint>>]_vars

\* the invocations of searchPlaces that have not settled
Searching == {i \in Calls : InFlight(i)}

\* C11: on the Friends and Marketplace pages at most one searchPlaces call
\* is in flight, so the result of a search is never applied to the places list
\* after a newer search has been started: the places a settling search leaves
\* on the page are its own, and no other search is in flight when it settles.
TheoremC11 ==
    /\ [](Cardinality(Searching) <= 1)
    /\ [][\A i \in Calls :
             (InFlight(i) /\ calls'[i].pc = "done") =>
                 /\ places' = calls'[i].promise.value
                 /\ Searching = {i}]_vars

\* on the Marketplace page a second search is in flight while the places of
\* the first one are shown
WitnessC11 ==
    /\ page = "marketplace"
    /\ Len(places) > 0
    /\ Searching # {}

\* C12: calculateMidpoint is never invoked with an empty point sequence: the
\* Friends page calls it with at least 2 confirmed coordinates, the Marketplace
\* page with the coordinates of both locations.
TheoremC12 ==
    /\ returned.fn = "calculateMidpoint" =>
           /\ Len(returned.args) >= 2
           /\ \A k \in 1..Len(returned.args) : returned.args[k] # nullObject
    /\ returned.fn = "MarketplaceCalculateMidpoint" =>
           /\ Len(returned.args) = 2
           /\ returned.args[1] # nullObject
           /\ returned.args[2] # nullObject

\* the Marketplace page computed the midpoint of its two locations, one found
\* by GPS and one by an address search, and keeps it
WitnessC12 ==
    /\ page = "marketplace"
    /\ returned.fn = "MarketplaceCalculateMidpoint"
    /\ returned.args = <<GpsFix, Point(30, 30)>>
    /\ midpoint = returned.value

\* saveMeetup got past its guards and issued the insert into meetups
SaveIssued == save.pc = "idle" /\ save'.pc = "meetups"

\* C19: a meetup row is inserted only when a user is signed in, the trimmed
\* title is non-empty and a place is selected; the row's creator_id is the
\* signed-in user's id, so it passes the insert policy, and its meeting point
\* lat, lng and name are those of the place selected when Save was clicked.
TheoremC19 ==
    /\ [](\A k \in 1..Len(meetups) :
             /\ user # nullObject
             /\ meetups[k].creator_id = user.id
             /\ MayCreateMeetup(user.id, meetups[k])
             /\ meetups[k].title # <<>>)
    /\ [][SaveIssued =>
               /\ user # nullObject
               /\ Trim(title) # <<>>
               /\ selectedPlace # nullObject
               /\ save'.row.creator_id = user.id
               /\ save'.row.title = Trim(title)
               /\ save'.row.meeting_point_lat = selectedPlace.lat
               /\ save'.row.meeting_point_lng = selectedPlace.lng
               /\ save'.row.meeting_point_name = selectedPlace.name]_vars
    /\ [][meetups' # meetups =>
               /\ save.pc = "meetups"
               /\ meetups' = Append(meetups, save.row @@ [id |-> Len(meetups) + 1])]_vars

\* the Marketplace page stored the meetup " Tea " of user-1 at the place that
\* was selected, and reported it
WitnessC19 ==
    /\ Len(meetups) = 1
    /\ meetups[1].creator_id = "user-1"
    /\ meetups[1].title = <<"T", "e", "a">>
    /\ meetups[1].meetup_type = "marketplace"
    /\ selectedPlace # nullObject
    /\ meetups[1].meeting_point_name = selectedPlace.name
    /\ toast = "Meetup saved! Share the details with the other party."

\* the entry of a list of locations with the given id
LocationOf(locs, id) ==
    CHOOSE loc \in {locs[k] : k \in 1..Len(locs)} : loc.id = id

\* C21: on the Friends page, after handleSearch received a geocode result for
\* a location and called onLocationFound and onChange, the location holds the
\* geocoded coordinates and counts as confirmed.
ClaimC21 ==
    [][\A l \in lookups, result \in GeocodeResults \ {nullObject} :
          (page = "friends" /\ geocodeResolves(l, result)) =>
              LocationOf(locations', l.input).coords =
                  [lat |-> result.lat, lng |-> result.lng]]_vars

\* a step that updates the name, the address or the coordinates of the
\* location with the given id
UpdateOf(id) ==
    \/ \E name \in TypedNames : updateLocationName(id, name)
    \/ \E text \in TypedAddresses : typeAddress(id, text)
    \/ \E l \in lookups :
           /\ l.input = id
           /\ \/ \E result \in GeocodeResults \ {nullObject} : geocodeResolves(l, result)
              \/ \E fix \in GpsFixes, name \in GpsNames : positionFound(l, fix, name)

\* C22: on the Friends page an update of one location leaves every other
\* entry unchanged and neither removes nor brings back an entry, also when an
\* address search or GPS fix completes after another location was edited,
\* added or removed.
ClaimC22 ==
    [][\A id \in Ids(locations) \cup {l.input : l \in lookups} :
          (page = "friends" /\ UpdateOf(id)) =>
              /\ Len(locations') = Len(locations)
              /\ \A k \in 1..Len(locations) :
                     locations[k].id # id => locations'[k] = locations[k]]_vars

\* C23: on the Friends and Marketplace pages selectedPlace is null or one of
\* the places currently shown, matched by id.
ClaimC23 ==
    selectedPlace # nullObject =>
        \E k \in 1..Len(places) : places[k].id = selectedPlace.id

\* C24: on the Friends page, whenever places are shown, midpoint is non-null
\* and is calculateMidpoint of the coordinates confirmed now: the places shown
\* are never stale with respect to the locations.
ClaimC24 ==
    (page = "friends" /\ Len(places) > 0) =>
        /\ midpoint # nullObject
        /\ midpoint = calculateMidpoint(CoordsOf(validLocations))

\* the Friends page reports a successful save: the success toast and the
\* navigation to /dashboard
SuccessReported == page = "friends" /\ page' = "dashboard" /\ toast' = SavedMessage

\* C25: the Friends page reports a successful save only if the meetup row and
\* the creator's meetup_participants row were both inserted.
ClaimC25 ==
    [][SuccessReported =>
           \E m \in 1..Len(meetups'), k \in 1..Len(participants') :
               /\ meetups'[m].creator_id = user.id
               /\ participants'[k].meetup_id = meetups'[m].id
               /\ participants'[k].user_id = user.id]_vars

\* C26: isLoading is true from the start of a searchPlaces invocation until it
\* settles and false once it has settled, on every path; as the request
\* settles in the end, isLoading returns to false, and the Find Meeting Spots
\* button is not left disabled by it.
TheoremC26 ==
    /\ [](InFlight(1) => isLoading)
    /\ [](~InFlight(1) => ~isLoading)
    /\ [][InFlight(1) /\ ~InFlight(1)' => calls'[1].promise.state = "fulfilled"]_vars
    /\ isLoading ~> ~isLoading

\* an invocation settled in its catch block, after response.json() rejected,
\* and isLoading is false again
WitnessC26 ==
    /\ calls[1].pc = "done"
    /\ calls[1].failures = 1
    /\ error = JsonSyntaxError.message
    /\ ~isLoading

\* no two interests of the list have names that are equal ignoring case
NoTwoAlike(list) ==
    \A i, j \in 1..Len(list) :
        i # j => toLowerCase(list[i].interest_name) # toLowerCase(list[j].interest_name)

\* C27: on the Interests page myInterests never holds two interests whose names
\* are equal ignoring case, and addInterest with a name that matches an
\* interest of the list ignoring case issues no insert and leaves the list
\* unchanged.
ClaimC27 ==
    /\ [](NoTwoAlike(myInterests))
    /\ [][(addInterest /\ NameTaken(myInterests, toLowerCase(Trim(newInterest)))) =>
              UNCHANGED <<myInterests, requests, user_interests>>]_vars

\* the initial fetch has settled, and no addInterest and no removeInterest call
\* is in flight
AllSettled ==
    InFlightRequests("fetchMyInterests") \cup InFlightRequests("addInterest")
        \cup InFlightRequests("removeInterest") = {}

\* C28: on the Interests page, once every started addInterest and
\* removeInterest call has settled, myInterests holds exactly the rows of the
\* user that exist in the store.
ClaimC28 ==
    (page = "interests" /\ user # nullObject /\ uuids > 0 /\ AllSettled) =>
        /\ \A k \in 1..Len(myInterests) :
               \E j \in 1..Len(user_interests) : user_interests[j] = myInterests[k]
        /\ \A j \in 1..Len(user_interests) :
               user_interests[j].user_id = user.id =>
                   \E k \in 1..Len(myInterests) : myInterests[k] = user_interests[j]

\* the listed users are other users, each of them listed once, with exactly
\* those of their interests whose name is, ignoring case, the name of one of
\* the interests in mine, in the order of the rows
ListsTheMatches(listed, mine, rows) ==
    \A m \in 1..Len(listed) :
           /\ listed[m].user_id # user.id
           /\ Len(listed[m].interests) >= 1
           /\ listed[m].interests =
                  LET theirs == SelectSeq(rows, LAMBDA row :
                                    /\ row.user_id = listed[m].user_id
                                    /\ \E k \in 1..Len(mine) :
                                           toLowerCase(mine[k].interest_name)
                                               = toLowerCase(row.interest_name))
                  IN  [k \in 1..Len(theirs) |-> theirs[k].interest_name]
           /\ \A n \in 1..Len(listed) : n # m => listed[n].user_id # listed[m].user_id

\* C29: every user listed by findMatches is a user other than the signed-in
\* user with at least one interest whose name equals, ignoring case, one of
\* the signed-in user's interests; the interests listed for a matched user are
\* exactly that user's interests with this property, and each matched user
\* appears once.
TheoremC29 ==
    [][\A k \in 1..Len(requests), ok \in BOOLEAN :
          profilesSettle(k, ok) =>
              ListsTheMatches(matchedUsers', requests[k].myInterests, user_interests)]_vars

\* findMatches listed user-2 with the interests GO and go before user-3 with
\* the interest Go, for user-1 whose only interest is go
WitnessC29 ==
    /\ page = "interests"
    /\ Len(myInterests) = 1
    /\ myInterests[1].interest_name = <<"g", "o">>
    /\ Len(matchedUsers) = 2
    /\ matchedUsers[1].user_id = "user-2"
    /\ matchedUsers[1].interests = << <<"G", "O">>, <<"g", "o">> >>
    /\ matchedUsers[2].user_id = "user-3"
    /\ matchedUsers[2].interests = << <<"G", "o">> >>
    /\ toast = MatchesMessage(2)

====
